---- MODULE Spec2Model ----
(***************************************************************************)
(* Verification model of the LINE chatbot backend.                         *)
(*                                                                         *)
(*   - AIProviderManager (src/backend/src/ai/manager.py): the provider     *)
(*     registry and the router generate_response with its fallback loop.   *)
(*   - LineWebhookHandler (src/backend/src/line/webhook.py): the per-event *)
(*     pipeline of _process_event / _handle_message_event.                 *)
(*                                                                         *)
(* Scope of the model: the keyed store (Redis) answers every call, so the  *)
(* try/except arms that only log a store failure are not taken.  An        *)
(* adapter call may succeed or fail with any of the provider errors.       *)
(***************************************************************************)
EXTENDS Integers, Sequences, FiniteSets, TLC

VARIABLES
    configs,                    \* store: ai:provider:<name> hashes, name -> config
    reload,                     \* position of a running reload_providers and the keys
                                \* of provider_keys it has not read yet
    enable_fallback_providers,  \* settings.enable_fallback_providers
    providers,                  \* AIProviderManager.providers, in dict insertion order
    primary_provider,           \* AIProviderManager.primary_provider
    initialized,                \* AIProviderManager._initialized
    metrics,                    \* store: metric:ai:<type>:<timestamp> hashes, in write order
    pc,                         \* position of each unit of work
    mode,                       \* who called the router: "direct" or "webhook"
    arg,                        \* arguments of the running generate_response call
    providers_to_try,           \* local of generate_response
    idx,                        \* position of the for loop over providers_to_try
    last_error,                 \* local of generate_response
    calls,                      \* adapter calls of the running generate_response, in
                                \* order: adapter name and outcome ("pending" while awaited)
    routeOut,                   \* outcome of generate_response: response or raised error
    routed,                     \* number of generate_response calls made by the unit
    history,                    \* store: conversation:<user_id> lists
    cache,                      \* response cache of the cache collaborator
    ev,                         \* event_data the unit is processing
    cached_response,            \* local of _handle_message_event: the cache's answer
    conversation,               \* message list handed to the router
    ai_response_content,        \* local of _handle_message_event
    ai_provider,                \* local of _handle_message_event
    stages,                     \* pipeline stages the unit has run, in order
    sends,                      \* _send_reply calls of the unit, in order
    result,                     \* what the event handler returned
    history0,                   \* the user's history when Persisting began
    channel_secret,             \* LineWebhookHandler._channel_secret
    environment,                \* settings.environment
    request,                    \* the request handle_webhook is serving
    gate,                       \* position of handle_webhook for the request
    pending,                    \* events of the request not yet processed_events
    slot,                       \* event_data of the running loop iteration
    http,                       \* status handle_webhook answered with (0: none yet)
    processed_events,           \* number of events of the request given to _process_event
    profiles,                   \* store: customer:<user_id> hashes, field -> value
    now,                        \* datetime.utcnow(), in days
    profile0,                   \* the user's profile when the unit's handler was entered
    extraction,                 \* what process_message_for_extraction returned to the unit
    templates,                  \* store: instruction:<name> hashes
    context,                    \* what _analyze_context returned to the unit
    selected,                   \* what _select_instructions returned to the unit
    instruction,                \* what generate_dynamic_instructions returned to the unit
    fault                       \* the step of generate_dynamic_instructions that raised, if any

routerVars == <<configs, reload, enable_fallback_providers, providers, primary_provider,
                initialized, metrics>>
callVars == <<pc, mode, arg, providers_to_try, idx, last_error, calls, routeOut,
              routed>>
hookVars == <<history, cache, ev, cached_response, conversation, ai_response_content, ai_provider, stages,
              sends, result, history0>>
ingressVars == <<channel_secret, environment, request, gate, pending, slot, http, processed_events>>
customerVars == <<profiles, now, profile0, extraction>>
instructionVars == <<templates, context, selected, instruction, fault>>
vars == <<routerVars, callVars, hookVars, ingressVars, customerVars, instructionVars>>

----------------------------------------------------------------------------
(* Bounds and universes *)

Names == {"A", "B", "C"}
MaxPriority == 2
Priorities == 1..MaxPriority
\* coroutines that handle requests or calls; OneUnit: a single one at a time
Units == {1, 2}
OneUnit == {1}
None == "None"
NoName == ""
\* Python's None where an adapter is expected
\* no reload_providers call is running
NoReload == [at |-> "idle", provider_keys |-> <<>>]

\* a float as Python holds it: not-a-number, or a number of tenths
NaN == [nan |-> TRUE, tenths |-> 0]
Float(tenths) == [nan |-> FALSE, tenths |-> tenths]

NoProvider == [name |-> "", enabled |-> FALSE, priority |-> 0, provider_type |-> "",
               api_key |-> "", model |-> "", temperature |-> NaN, max_tokens |-> 0]

\* settings.primary_ai_provider (the default is "gemini"; "A" stands for it)
PrimaryName == "A"

\* failures an adapter call can end with (ai/base.py AIProviderError and subclasses)
ProviderErrors == {"Timeout", "Unimplemented"}

\* an ai:provider:<name> hash that passes every check of validate_config
ValidStored(e, p) ==
    [enabled |-> e, priority |-> p, provider_type |-> "gemini", api_key_secret |-> "key",
     model |-> "m", temperature |-> "0.7", max_tokens |-> "2048"]

ConfigRec == {ValidStored(e, p) : e \in BOOLEAN, p \in Priorities}
ConfigStores == UNION {[S -> ConfigRec] : S \in SUBSET Names}

\* the orders in which KEYS ai:provider:* can list the keys of a store
KeyOrders(cfg) ==
    LET S == DOMAIN cfg
        n == Cardinality(S)
    IN  {f \in [1..n -> S] : \A i, j \in 1..n : i # j => f[i] # f[j]}

\* inbound events
Users == {"u1", "u2"}
Texts == {"hi", "price"}
OtherTypes == {"follow", "unfollow", "postback", "beacon"}
Events ==
    [type : {"message"}, userId : Users, message_type : {"text"}, text : Texts,
     replyToken : BOOLEAN]
    \cup [type : {"message"}, userId : Users, message_type : {"image"}, text : {""},
          replyToken : BOOLEAN]
    \cup [type : OtherTypes, userId : Users, message_type : {""}, text : {""},
          replyToken : BOOLEAN]
NoEvent == [type |-> "", userId |-> "", message_type |-> "", text |-> "", replyToken |-> FALSE]

\* what line_client.send_reply_message can do with a reply
TransportOutcomes == {"delivered", "rejected", "raised"}

\* _store_conversation_turn keeps the last 50 messages (ltrim -50 -1)
RetentionBound == 50
\* _get_conversation_history(limit=10) reads the last limit * 2 messages
HistoryLimit == 10
\* longest history the store holds initially
MaxInitialHistory == 60
HistoryLens == {0, RetentionBound - 1, MaxInitialHistory}

\* stored message: json {"role", "content", ...}
Entry(role, content) == [role |-> role, content |-> content]
OldHistory(n) ==
    [i \in 1..n |-> Entry(IF i % 2 = 1 THEN "user" ELSE "assistant", ToString(i))]

WelcomeText == "welcome"

\* handle_webhook: secrets, request bodies and x-line-signature headers
NoSecret == ""
Secrets == {"k1", "k2"}
\* the body of a request: the events it carries, or bytes that are not JSON
IngressEvents ==
    <<[type |-> "message", userId |-> "u1", message_type |-> "text", text |-> "hi",
       replyToken |-> TRUE],
      [type |-> "unfollow", userId |-> "u1", message_type |-> "", text |-> "",
       replyToken |-> FALSE]>>
Bodies ==
    {[json |-> TRUE, events |-> <<>>],
     [json |-> TRUE, events |-> <<IngressEvents[1]>>],
     [json |-> TRUE, events |-> <<IngressEvents[2], IngressEvents[1]>>],
     [json |-> FALSE, events |-> <<>>]}
\* hmac.new(secret, body, sha256).digest().hex(), taken as collision free
hmac_hex(secret, body) == [key |-> secret, body |-> body]
NoDigest == [key |-> "", body |-> [json |-> FALSE, events |-> <<>>]]
Digests == {hmac_hex(k, b) : k \in Secrets, b \in Bodies} \cup {NoDigest}
\* the header: absent, or "sha256=" (if prefix) followed by the digest text
Signatures == [present : BOOLEAN, prefix : BOOLEAN, digest : Digests]
Requests == [body : Bodies, signature : Signatures]
NoRequest == [body |-> [json |-> FALSE, events |-> <<>>],
              signature |-> [present |-> FALSE, prefix |-> FALSE, digest |-> NoDigest]]
ApologyText == "apology"

----------------------------------------------------------------------------
(* Registry: pure helpers *)

\* AIProvider built from a config: name, is_enabled, priority
\* secret names that start with "env:", and os.getenv(name, "") for them: one variable
\* is set, the other is not
EnvSecrets == {"env:SET_KEY", "env:UNSET_KEY"}
getenv(secret_name) == IF secret_name = "env:SET_KEY" THEN "key-from-env" ELSE ""

\* _get_api_key: an "env:" name is read from the environment, any other name is the key
get_api_key(secret_name) ==
    IF secret_name \in EnvSecrets THEN getenv(secret_name) ELSE secret_name

\* float(provider_data.get("temperature", 0.7)) for the stored strings of the model
float_of(str) ==
    CASE str = "nan" -> NaN
      [] str = "-0.1" -> Float(0 - 1)
      [] str = "0" -> Float(0)
      [] str = "0.7" -> Float(7)
      [] str = "2" -> Float(20)
      [] str = "2.1" -> Float(21)

\* int(provider_data.get("max_tokens", 2048)) for the stored strings of the model
int_of(str) ==
    CASE str = "-1" -> 0 - 1
      [] str = "0" -> 0
      [] str = "1" -> 1
      [] str = "2048" -> 2048

\* comparisons of floats: every comparison with not-a-number is false
FloatLess(a, b) == ~a.nan /\ ~b.nan /\ a.tenths < b.tenths

\* AIConfiguration built in _load_providers_from_redis, wrapped in its AIProvider
Adapter(name, c) ==
    [name |-> name, enabled |-> c.enabled, priority |-> c.priority,
     provider_type |-> c.provider_type, api_key |-> get_api_key(c.api_key_secret),
     model |-> c.model, temperature |-> float_of(c.temperature),
     max_tokens |-> int_of(c.max_tokens)]

ProviderTypes == {"gemini", "openai", "deepseek"}

\* _create_provider: an adapter for a known provider_type, None otherwise
create_provider(name, c) ==
    IF c.provider_type \in ProviderTypes THEN Adapter(name, c) ELSE NoProvider

\* AIProvider.validate_config
validate_config(p) ==
    IF p.api_key = "" THEN FALSE
    ELSE IF p.model = "" THEN FALSE
    ELSE IF FloatLess(p.temperature, Float(0)) \/ FloatLess(Float(20), p.temperature) THEN FALSE
    ELSE IF p.max_tokens <= 0 THEN FALSE
    ELSE TRUE

IndexOf(s, name) ==
    IF \E i \in 1..Len(s) : s[i].name = name
    THEN CHOOSE i \in 1..Len(s) : s[i].name = name
    ELSE 0

\* self.providers[name] = provider on an insertion-ordered dict
DictSet(s, p) ==
    LET i == IndexOf(s, p.name)
    IN  IF i = 0 THEN Append(s, p) ELSE [s EXCEPT ![i] = p]

\* self.providers.get(name)
DictGet(s, name) ==
    LET i == IndexOf(s, name)
    IN  IF i = 0 THEN NoProvider ELSE s[i]

RECURSIVE LoadInto(_, _, _)
LoadInto(s, cfg, order) ==
    IF order = <<>> THEN s
    ELSE LET provider == create_provider(Head(order), cfg[Head(order)])
         IN  IF provider # NoProvider /\ validate_config(provider)
             THEN LoadInto(DictSet(s, provider), cfg, Tail(order))
             ELSE LoadInto(s, cfg, Tail(order))

\* _load_providers_from_redis: one adapter per key that passes validate_config, in the
\* order KEYS lists them
load_providers_from_redis(s, cfg, order) == LoadInto(s, cfg, order)

RECURSIVE InsertByPriority(_, _)
InsertByPriority(p, s) ==
    IF s = <<>> THEN <<p>>
    ELSE IF Head(s).priority >= p.priority
         THEN <<Head(s)>> \o InsertByPriority(p, Tail(s))
         ELSE <<p>> \o s

\* sorted(xs, key=lambda p: p.priority, reverse=True): stable, equal keys keep their order
RECURSIVE sorted_by_priority(_)
sorted_by_priority(s) ==
    IF s = <<>> THEN <<>>
    ELSE InsertByPriority(s[Len(s)], sorted_by_priority(SubSeq(s, 1, Len(s) - 1)))

Enabled(s) == SelectSeq(s, LAMBDA p : p.enabled)

\* get_enabled_providers
get_enabled_providers(s) == sorted_by_priority(Enabled(s))

\* get_provider that returns the primary without looking at is_enabled
get_provider_any_primary(s, prim, provider_name) ==
    IF provider_name # NoName THEN DictGet(s, provider_name)
    ELSE IF prim # None /\ IndexOf(s, prim) # 0 THEN DictGet(s, prim)
    ELSE IF Enabled(sorted_by_priority(s)) # <<>>
         THEN Head(Enabled(sorted_by_priority(s)))
    ELSE NoProvider

\* get_provider(provider_name): s is self.providers, prim is self.primary_provider
get_provider(s, prim, provider_name) ==
    IF provider_name # NoName THEN DictGet(s, provider_name)
    ELSE IF prim # None /\ IndexOf(s, prim) # 0 /\ DictGet(s, prim).enabled
         THEN DictGet(s, prim)
    ELSE IF Enabled(sorted_by_priority(s)) # <<>>
         THEN Head(Enabled(sorted_by_priority(s)))
    ELSE NoProvider

\* a candidate list whose fallbacks do not leave out the first candidate
candidates_unfiltered(s, prim, provider_name, use_fallback, enable_fb) ==
    LET first == get_provider(s, prim, provider_name)
        head == IF first = NoProvider THEN <<>> ELSE <<first>>
    IN  IF provider_name # NoName THEN head
        ELSE IF use_fallback /\ enable_fb THEN head \o get_enabled_providers(s)
             ELSE head

\* the candidate list generate_response builds (lines 162-175)
candidates(s, prim, provider_name, use_fallback, enable_fb) ==
    LET first == get_provider(s, prim, provider_name)
        firstName == IF first = NoProvider THEN "" ELSE first.name
        head == IF first = NoProvider THEN <<>> ELSE <<first>>
    IN  IF provider_name # NoName THEN head
        ELSE IF use_fallback /\ enable_fb
             THEN head \o SelectSeq(get_enabled_providers(s), LAMBDA p : p.name # firstName)
             ELSE head

----------------------------------------------------------------------------
(* Outcomes *)

NoOut == [kind |-> "none"]
\* AIResponse built by AIProvider.create_response: provider = self.name
Response(p) == [kind |-> "response", provider |-> p.name, content |-> "answer"]
\* AIProviderError raised by the manager
ManagerError(text, cause) == [kind |-> "error", provider |-> "manager", text |-> text, cause |-> cause]

\* _record_metric that writes nothing for a failure
record_metric_no_error(log, u, metric_type, provider, error) ==
    IF metric_type = "error" THEN log
    ELSE Append(log, [metric_type |-> metric_type, provider |-> provider, error |-> error,
                      unit |-> u])

\* _record_metric(metric_type, provider, ...): one hash written to the store
record_metric(log, u, metric_type, provider, error) ==
    Append(log, [metric_type |-> metric_type, provider |-> provider, error |-> error, unit |-> u])

----------------------------------------------------------------------------
(* Keyed store lists, cache collaborator, outbound transport: pure helpers *)

Max(a, b) == IF a >= b THEN a ELSE b
Min(a, b) == IF a <= b THEN a ELSE b

\* Redis index normalisation: a negative index counts from the end
RedisIndex(n, i) == IF i < 0 THEN n + i ELSE i

\* LRANGE key start stop (zero-based, inclusive, out-of-range indexes clamped)
lrange(list, start, stop) ==
    LET n == Len(list)
        a == Max(RedisIndex(n, start), 0)
        b == Min(RedisIndex(n, stop), n - 1)
    IN  IF a > b THEN <<>> ELSE SubSeq(list, a + 1, b + 1)

\* LTRIM key start stop: the list becomes the range LRANGE would return
ltrim(list, start, stop) == lrange(list, start, stop)

\* RPUSH key value
rpush(list, value) == Append(list, value)

\* a trim that keeps the oldest messages instead of the newest
trim_conversation_head(list) == ltrim(list, 0, RetentionBound - 1)

\* _store_conversation_turn, line 457: keep only the last 50 messages
trim_conversation(list) == ltrim(list, -RetentionBound, -1)

\* a read of the oldest limit * 2 stored messages
recent_history_oldest(list) == lrange(list, 0, HistoryLimit * 2 - 1)

\* _get_conversation_history, line 361: the last limit * 2 stored messages
recent_history(list) == lrange(list, -(HistoryLimit * 2), -1)

\* _get_conversation_history, lines 374-390 with line 220: the system instruction,
\* the recent stored messages, the new user message
build_conversation(list, text, system_instruction) ==
    (IF system_instruction # <<>> THEN <<Entry("system", system_instruction)>> ELSE <<>>)
    \o recent_history(list) \o <<Entry("user", text)>>

\* cache collaborator: lookup(message, context) -> text or nothing
get_cached_response(c, text) == IF text \in DOMAIN c THEN c[text] ELSE ""

\* cache collaborator: store(message, response, ...)
cache_response(c, text, response) ==
    IF text \in DOMAIN c THEN [c EXCEPT ![text] = response] ELSE c

\* the cache lookup whose answer is never used
after_cache_lookup_ignored(cached) == "get_history"

\* _handle_message_event, line 206: a cached answer short-circuits to Persisting
after_cache_lookup(cached) == IF cached # "" THEN "store_user" ELSE "get_history"

\* a dispatch without the check of the message type
handler_for_any_message(e) ==
    IF e.type = "message" THEN "text"
    ELSE IF e.type \in {"follow", "unfollow", "postback"} THEN e.type
    ELSE "unhandled"

\* _process_event / _handle_message_event dispatch (lines 162-172 and 185)
handler_for(e) ==
    IF e.type = "message"
    THEN IF e.message_type # "text" THEN "non_text" ELSE "text"
    ELSE IF e.type \in {"follow", "unfollow", "postback"} THEN e.type
    ELSE "unhandled"

\* _send_reply: False without a reply token, else what the transport reports
send_reply(token, text, outcome) ==
    [text |-> text, outcome |-> IF token THEN outcome ELSE "no_token",
     ok |-> token /\ outcome = "delivered"]

\* the handlers' return values
Result(success, processed, provider, reply_sent, error) ==
    [success |-> success, message_processed |-> processed, ai_provider |-> provider,
     reply_sent |-> reply_sent, error |-> error]
NoResult == Result(FALSE, FALSE, "", FALSE, "")

\* a return value that reports the event as failed when the reply was not delivered
message_result_by_delivery(provider, reply_success) ==
    Result(reply_success, reply_success, provider, reply_success, "")

\* _handle_message_event, lines 254-263
message_result(provider, reply_success) == Result(TRUE, TRUE, provider, reply_success, "")

\* a failure reply that carries the text of the error
failure_reply_error_text(err) == err.text

\* _handle_message_event, lines 268-273: the reply sent when handling raised
failure_reply(err) == ApologyText

----------------------------------------------------------------------------
(* Message texts as the pattern tables of the customer and instruction managers see them *)

\* one regex match: group(1).strip(), the cleaned text (phone: separators removed,
\* email: lower case, name: unchanged), and whether that text is all digits
Cap(value, cleaned, isdigit) == [value |-> value, cleaned |-> cleaned, isdigit |-> isdigit]

\* a text: the keywords it contains (substring test), and for each field the matches
\* of each of its patterns, in pattern order and match order
Facts(keywords, phone, email, name) ==
    [keywords |-> keywords, phone |-> phone, email |-> email, name |-> name]
NoFacts == Facts({}, <<<<>>, <<>>, <<>>>>, <<<<>>>>, <<<<>>, <<>>, <<>>, <<>>>>)

TextFacts(t) ==
    CASE t = "hi" -> [NoFacts EXCEPT !.keywords = {"hi"}]
      [] t = "price" -> [NoFacts EXCEPT !.keywords = {"price"}]
      [] t = "price? urgent" -> [NoFacts EXCEPT !.keywords = {"price", "?", "urgent"}]
      [] t = "my first print" -> [NoFacts EXCEPT !.keywords = {"first", "print"}]
      [] t = "order more" -> [NoFacts EXCEPT !.keywords = {"order", "more"}]
      [] t = "hi, problem with order" -> [NoFacts EXCEPT !.keywords = {"hi", "problem", "order"}]
      [] t = "ask for help" -> [NoFacts EXCEPT !.keywords = {"ask", "help"}]
      [] t = "help, more problem" -> [NoFacts EXCEPT !.keywords = {"help", "more", "problem"}]
      [] t = "more" -> [NoFacts EXCEPT !.keywords = {"more"}]
      [] t = "hello name John, tel 081-234-5678" ->
            Facts({"hello"},
                  <<<<Cap("081-234-5678", "0812345678", TRUE)>>,
                    <<Cap("081-234-5678", "0812345678", TRUE)>>, <<>>>>,
                  <<<<>>>>,
                  <<<<Cap("John", "John", FALSE)>>, <<>>, <<>>, <<>>>>)
      [] t = "price, name John" ->
            Facts({"price"}, <<<<>>, <<>>, <<>>>>, <<<<>>>>,
                  <<<<Cap("John", "John", FALSE)>>, <<>>, <<>>, <<>>>>)
      [] t = "name Jo, tel 081234567" ->
            Facts({},
                  <<<<Cap("081234567", "081234567", TRUE)>>, <<>>, <<>>>>,
                  <<<<>>>>,
                  <<<<Cap("Jo", "Jo", FALSE)>>, <<>>, <<>>, <<>>>>)
      [] t = "tel 02-123-4567 or 0891234567" ->
            Facts({},
                  <<<<Cap("02-123-4567", "021234567", TRUE)>>,
                    <<Cap("0891234567", "0891234567", TRUE)>>,
                    <<Cap("0891234567", "0891234567", TRUE)>>>>,
                  <<<<>>>>, <<<<>>, <<>>, <<>>, <<>>>>)
      [] t = "tel 1234-5678" ->
            Facts({},
                  <<<<Cap("1234-5678", "12345678", TRUE)>>, <<>>, <<>>>>,
                  <<<<>>>>, <<<<>>, <<>>, <<>>, <<>>>>)
      [] t = "mail A@B.co" ->
            Facts({}, <<<<>>, <<>>, <<>>>>, <<<<Cap("A@B.co", "a@b.co", FALSE)>>>>,
                  <<<<>>, <<>>, <<>>, <<>>>>)
      [] t = "mail x@y.io" ->
            Facts({}, <<<<>>, <<>>, <<>>>>, <<<<Cap("x@y.io", "x@y.io", FALSE)>>>>,
                  <<<<>>, <<>>, <<>>, <<>>>>)
      [] OTHER -> NoFacts

----------------------------------------------------------------------------
(* CustomerManager: profiles and attribute extraction *)

ExtractedFields == {"phone", "email", "name"}
\* settings.auto_extract_customer_info
auto_extract_customer_info == TRUE

\* redis hash operations on one key
hset(h, f, v) == [k \in DOMAIN h \cup {f} |-> IF k = f THEN v ELSE h[k]]
hget(h, f, default) == IF f \in DOMAIN h THEN h[f] ELSE default
NoProfile == <<>>

\* get_customer: None (the empty hash) when nothing is stored, else the hash with
\* message_count read as a number
get_customer(h) ==
    IF DOMAIN h = {} THEN NoProfile ELSE hset(h, "message_count", hget(h, "message_count", 0))

\* create_customer: nothing if the key exists, else the full default profile
create_customer(h, user_id, t) ==
    IF DOMAIN h # {}
    THEN h
    ELSE [f \in {"user_id", "name", "phone", "email", "status", "source", "created_at",
                 "updated_at", "last_interaction", "message_count"} |->
             CASE f = "user_id" -> user_id
               [] f = "status" -> "active"
               [] f = "source" -> "line"
               [] f \in {"created_at", "updated_at", "last_interaction"} -> t
               [] f = "message_count" -> 0
               [] OTHER -> ""]

RECURSIVE hset_all(_, _, _)
hset_all(h, updates, fields) ==
    IF fields = {}
    THEN h
    ELSE LET f == CHOOSE x \in fields : TRUE
         IN  hset_all(hset(h, f, updates[f]), updates, fields \ {f})

\* update_customer: nothing if the key does not exist, else the fields and updated_at
update_customer(h, updates, t) ==
    IF DOMAIN h = {}
    THEN h
    ELSE hset(hset_all(h, updates, DOMAIN updates), "updated_at", t)

\* _extract_info_with_patterns, lines 240-253: is the match valid for the field
valid_capture(field, c) ==
    CASE field = "phone" -> Len(c.cleaned) >= 9 /\ c.isdigit
      [] field = "email" -> TRUE
      [] field = "name" -> Len(c.value) >= 2 /\ ~c.isdigit

\* the loop over the matches of one pattern: a valid match sets the field, and the
\* loop breaks as soon as the field is set (cur = "" stands for: not set)
RECURSIVE scan_matches(_, _, _)
scan_matches(field, ms, cur) ==
    IF ms = <<>>
    THEN cur
    ELSE LET c == Head(ms)
             v == IF valid_capture(field, c)
                  THEN (IF field = "name" THEN c.value ELSE c.cleaned)
                  ELSE cur
         IN  IF v # "" THEN v ELSE scan_matches(field, Tail(ms), v)

\* the loop over the patterns of one field; the break above leaves only the inner loop
RECURSIVE scan_patterns(_, _, _)
scan_patterns(field, ps, cur) ==
    IF ps = <<>>
    THEN cur
    ELSE scan_patterns(field, Tail(ps), scan_matches(field, Head(ps), cur))

\* _extract_info_with_patterns: field -> value, "" for a field that is not extracted
extract_info_with_patterns(text) ==
    [f \in ExtractedFields |-> scan_patterns(f, TextFacts(text)[f], "")]

\* a merge rule that takes every extracted value that differs
should_update_field_always(current_value, new_value, field) == TRUE

\* _should_update_field
should_update_field(current_value, new_value, field) ==
    CASE field = "phone" -> Len(new_value) > Len(current_value)
      [] field = "email" -> TRUE
      [] field = "name" -> Len(new_value) > Len(current_value)
      [] OTHER -> FALSE

\* a merge that does not compare the extracted value with the stored one
merge_updates_without_comparison(current_profile, extracted) ==
    {f \in ExtractedFields :
        /\ extracted[f] # ""
        /\ LET current_value == hget(current_profile, f, "")
           IN  current_value = "" \/ should_update_field(current_value, extracted[f], f)}

\* lines 202-215: the fields to write, given the profile read and the extracted values
merge_updates(current_profile, extracted) ==
    {f \in ExtractedFields :
        /\ extracted[f] # ""
        /\ LET current_value == hget(current_profile, f, "")
           IN  \/ current_value = ""
               \/ /\ current_value # extracted[f]
                  /\ should_update_field(current_value, extracted[f], f)}

NoExtraction == [extracted |-> [f \in ExtractedFields |-> ""], changes |-> {}, updated |-> FALSE]

\* process_message_for_extraction: the profile it leaves and the result it returns
process_message_for_extraction(h, user_id, message, t) ==
    IF ~auto_extract_customer_info
    THEN [profile |-> h, result |-> NoExtraction]
    ELSE LET extracted == extract_info_with_patterns(message)
             found == get_customer(h)
             h1 == IF DOMAIN found = {} THEN create_customer(h, user_id, t) ELSE h
             current_profile == IF DOMAIN found = {} THEN get_customer(h1) ELSE found
             fields == merge_updates(current_profile, extracted)
             updates == [f \in fields |-> extracted[f]]
             h2 == IF fields # {} THEN update_customer(h1, updates, t) ELSE h1
         IN  [profile |-> h2,
              result |-> [extracted |-> extracted, changes |-> fields,
                          updated |-> fields # {}]]

----------------------------------------------------------------------------
(* InstructionManager: context analysis, template selection, instruction synthesis *)

\* _domain_patterns and _business_keywords: the keywords of each entry that the texts use
Domains == {"3d_printing", "pricing", "technical", "materials", "service"}
DomainKeywords ==
    [d \in Domains |->
        CASE d = "3d_printing" -> {"3d", "print"}
          [] d = "pricing" -> {"price", "order"}
          [] d = "technical" -> {"problem"}
          [] d = "materials" -> {"pla"}
          [] d = "service" -> {"help"}]
BusinessFlags == {"urgent", "budget", "quality", "beginner", "professional"}
BusinessKeywords ==
    [b \in BusinessFlags |->
        CASE b = "urgent" -> {"urgent"}
          [] b = "budget" -> {"cheap"}
          [] b = "quality" -> {"good"}
          [] b = "beginner" -> {"first"}
          [] b = "professional" -> {"business"}]
\* _determine_conversation_stage: the word lists, in rule order
StageRules ==
    <<[stage |-> "greeting", words |-> {"hello", "hi"}],
      [stage |-> "inquiry", words |-> {"ask"}],
      [stage |-> "support", words |-> {"problem", "help"}],
      [stage |-> "order", words |-> {"order"}],
      [stage |-> "followup", words |-> {"more"}]>>
QuestionWords == {"?", "how much"}
\* _analyze_customer_segment thresholds
NewCustomerDays == 1
VipMessages == 50
RegularMessages == 10

\* keywords contained in a text, and in texts joined with spaces
Keywords(text) == TextFacts(text).keywords
JoinedKeywords(texts) == UNION {Keywords(texts[i]) : i \in 1..Len(texts)}
Last(seq, n) == SubSeq(seq, Max(1, Len(seq) - n + 1), Len(seq))

\* _detect_domains
detect_domains(keywords) == {d \in Domains : DomainKeywords[d] \cap keywords # {}}

\* _detect_business_context
detect_business_context(keywords) ==
    [b \in BusinessFlags |-> BusinessKeywords[b] \cap keywords # {}]

RECURSIVE first_rule(_, _)
first_rule(rules, keywords) ==
    IF rules = <<>>
    THEN "conversation"
    ELSE IF Head(rules).words \cap keywords # {}
         THEN Head(rules).stage
         ELSE first_rule(Tail(rules), keywords)

\* the rule list alone, without the test for an empty history
determine_conversation_stage_rules_only(current_message, conversation_history) ==
    first_rule(StageRules, Keywords(current_message))

\* _determine_conversation_stage
determine_conversation_stage(current_message, conversation_history) ==
    IF conversation_history = <<>>
    THEN "initial"
    ELSE first_rule(StageRules, Keywords(current_message))

\* _analyze_customer_segment; t is datetime.utcnow(), a missing created_at does not parse
analyze_customer_segment(customer, t) ==
    IF DOMAIN customer = {}
    THEN "new"
    ELSE LET message_count == hget(customer, "message_count", 0)
             days_since_creation ==
                 IF "created_at" \in DOMAIN customer THEN t - customer["created_at"] ELSE 0
         IN  IF days_since_creation <= NewCustomerDays THEN "new"
             ELSE IF message_count >= VipMessages THEN "vip"
             ELSE IF message_count >= RegularMessages THEN "regular"
             ELSE "occasional"

\* _analyze_context: customer is what get_customer returned
analyze_context(customer, user_message, conversation_history, t) ==
    LET current_domains == detect_domains(Keywords(user_message))
        history_keywords == JoinedKeywords(Last(conversation_history, 10))
        history_domains == detect_domains(history_keywords)
        all_domains == current_domains \cup history_domains
    IN  [domains |-> all_domains,
         domain_weights |->
             [d \in all_domains |-> (IF d \in current_domains THEN 2 ELSE 0)
                                    + (IF d \in history_domains THEN 1 ELSE 0)],
         business_context |->
             detect_business_context(Keywords(user_message) \cup history_keywords),
         conversation_stage |->
             determine_conversation_stage(user_message, conversation_history),
         customer_segment |-> analyze_customer_segment(customer, t),
         customer_profile |-> customer,
         message_length |-> Len(user_message),
         is_question |-> Keywords(user_message) \cap QuestionWords # {}]

NoContext ==
    [domains |-> {}, domain_weights |-> <<>>,
     business_context |-> [b \in BusinessFlags |-> FALSE], conversation_stage |-> "",
     customer_segment |-> "", customer_profile |-> NoProfile, message_length |-> 0,
     is_question |-> FALSE]

\* instruction templates: the hash of one instruction:<name> key
Template(name, enabled, category, triggers, priority, content) ==
    [name |-> name, enabled |-> enabled, category |-> category, triggers |-> triggers,
     priority |-> priority, content |-> content]
\* template content: its text and the placeholders the text holds
Content(body, placeholders) == [body |-> body, placeholders |-> placeholders]
Placeholders == {"{customer_name}", "{customer_segment}", "{conversation_stage}",
                 "{business_context}"}
UnknownCustomerName == "customer"

\* _create_default_instructions: the five default templates
DefaultTemplates ==
    <<Template("3d_printing_general", TRUE, "3d_printing", {"3d", "printing", "model"}, 5,
               Content("3d_printing_general", {})),
      Template("pricing_service", TRUE, "pricing", {"price", "cost"}, 4,
               Content("pricing_service", {})),
      Template("technical_support", TRUE, "technical", {"problem", "error"}, 5,
               Content("technical_support", {})),
      Template("materials_guide", TRUE, "materials", {"material", "pla", "filament"}, 4,
               Content("materials_guide", {})),
      Template("new_customer_welcome", TRUE, "service", {"new", "first"}, 3,
               Content("new_customer_welcome", {}))>>

\* limit of _select_instructions: selected[:5]
SelectionLimit == 5

\* a match on trigger tokens alone
matches_context_triggers_only(instruction_data, ctx) ==
    \E trigger \in instruction_data.triggers :
        /\ trigger # ""
        /\ \/ trigger = ctx.conversation_stage
           \/ trigger = ctx.customer_segment
           \/ trigger \in ctx.domains

\* _matches_context: context has no "current_message" key, so the message text a
\* trigger is tested against is the empty string and no trigger is contained in it
matches_context(instruction_data, ctx) ==
    \/ instruction_data.category \in ctx.domains
    \/ \E trigger \in instruction_data.triggers :
           /\ trigger # ""
           /\ \/ trigger = ctx.conversation_stage
              \/ trigger = ctx.customer_segment
              \/ trigger \in ctx.domains

\* list.sort(key=priority, reverse=True): stable
RECURSIVE insert_by_priority(_, _)
insert_by_priority(sorted, x) ==
    IF sorted = <<>>
    THEN <<x>>
    ELSE IF Head(sorted).priority >= x.priority
         THEN <<Head(sorted)>> \o insert_by_priority(Tail(sorted), x)
         ELSE <<x>> \o sorted
\* a selection that keeps the order in which KEYS listed the templates
sort_by_priority_unsorted(list) == list

RECURSIVE sort_by_priority(_)
sort_by_priority(list) ==
    IF list = <<>>
    THEN <<>>
    ELSE insert_by_priority(sort_by_priority(SubSeq(list, 1, Len(list) - 1)),
                            list[Len(list)])

\* _select_instructions: store lists the instruction:* hashes in the order KEYS gives
select_instructions(store, ctx) ==
    LET matching == SelectSeq(store, LAMBDA i : i.enabled /\ matches_context(i, ctx))
        ordered == sort_by_priority(matching)
    IN  SubSeq(ordered, 1, Min(SelectionLimit, Len(ordered)))

\* one part of the combined instruction: a text with its placeholders resolved
Part(body, values) == [body |-> body, values |-> values]
BaseInstruction == Part("base", <<>>)
\* _get_default_instruction
DefaultInstruction == <<Part("default", <<>>)>>

\* _replace_variables
replace_variables(content, ctx) ==
    Part(content.body,
         [ph \in content.placeholders |->
             CASE ph = "{customer_name}" ->
                      hget(ctx.customer_profile, "name", UnknownCustomerName)
               [] ph = "{customer_segment}" -> ctx.customer_segment
               [] ph = "{conversation_stage}" -> ctx.conversation_stage
               [] ph = "{business_context}" ->
                      {b \in BusinessFlags : ctx.business_context[b]}])

\* _get_personalization_suffix: a text for each of the four segments
personalization_suffix(ctx) ==
    IF ctx.customer_segment \in {"new", "vip", "regular", "occasional"}
    THEN <<Part(ctx.customer_segment, <<>>)>>
    ELSE <<>>

\* a combination that returns nothing when no template was selected
combine_instructions_no_default(selected_instructions, ctx) ==
    IF selected_instructions = <<>> THEN <<>> ELSE DefaultInstruction

\* _combine_instructions: context["customer_profile"] is None when no profile is stored,
\* _replace_variables then raises and the except arm returns the default instruction
combine_instructions(selected_instructions, ctx) ==
    IF selected_instructions = <<>>
    THEN DefaultInstruction
    ELSE IF DOMAIN ctx.customer_profile = {}
    THEN DefaultInstruction
    ELSE <<BaseInstruction>>
         \o [i \in 1..Len(selected_instructions) |->
                replace_variables(selected_instructions[i].content, ctx)]
         \o personalization_suffix(ctx)

\* generate_dynamic_instructions: [context, selected, instruction]
generate_dynamic_instructions(store, h, user_message, conversation_history, t) ==
    LET ctx == analyze_context(get_customer(h), user_message, conversation_history, t)
        sel == select_instructions(store, ctx)
    IN  [context |-> ctx, selected |-> sel, instruction |-> combine_instructions(sel, ctx)]

\* the steps of generate_dynamic_instructions that can raise
Faults == {"analysis", "selection", "composition"}

\* _analyze_context, lines 161-163: the context returned when the analysis raised; it
\* has no customer_segment and no customer_profile key
FallbackContext == [NoContext EXCEPT !.conversation_stage = "inquiry"]

\* _combine_instructions for a context without the customer_profile key: the name
\* placeholder takes its default
compose_without_profile(selected_instructions, ctx) ==
    <<BaseInstruction>>
    \o [i \in 1..Len(selected_instructions) |->
           replace_variables(selected_instructions[i].content, ctx)]
    \o personalization_suffix(ctx)

\* generate_dynamic_instructions when step f raises: _analyze_context returns the
\* fallback context, _select_instructions returns the empty list, _combine_instructions
\* returns the default instruction
generate_dynamic_instructions_failing(store, h, user_message, conversation_history, t, f) ==
    LET ctx == IF f = "analysis"
               THEN FallbackContext
               ELSE analyze_context(get_customer(h), user_message, conversation_history, t)
        sel == IF f = "selection" THEN <<>> ELSE select_instructions(store, ctx)
        ins == IF sel = <<>> \/ f = "composition"
               THEN DefaultInstruction
               ELSE IF f = "analysis"
               THEN compose_without_profile(sel, ctx)
               ELSE combine_instructions(sel, ctx)
    IN  [context |-> ctx, selected |-> sel, instruction |-> ins]

----------------------------------------------------------------------------
(* Initial states *)

InitHook ==
    /\ ev = [u \in Units |-> NoEvent]
    /\ cached_response = [u \in Units |-> ""]
    /\ conversation = [u \in Units |-> <<>>]
    /\ ai_response_content = [u \in Units |-> ""]
    /\ ai_provider = [u \in Units |-> ""]
    /\ stages = [u \in Units |-> <<>>]
    /\ sends = [u \in Units |-> <<>>]
    /\ result = [u \in Units |-> NoResult]
    /\ history0 = [u \in Units |-> <<>>]

InitCall ==
    /\ pc = [u \in Units |-> "idle"]
    /\ mode = [u \in Units |-> "none"]
    /\ arg = [u \in Units |-> [provider_name |-> NoName, use_fallback |-> TRUE]]
    /\ providers_to_try = [u \in Units |-> <<>>]
    /\ idx = [u \in Units |-> 0]
    /\ last_error = [u \in Units |-> None]
    /\ calls = [u \in Units |-> <<>>]
    /\ routeOut = [u \in Units |-> NoOut]
    /\ routed = [u \in Units |-> 0]

InitRegistry ==
    /\ reload = NoReload
    /\ enable_fallback_providers \in BOOLEAN
    /\ providers = <<>>
    /\ primary_provider = None
    /\ initialized = FALSE
    /\ metrics = <<>>

\* locals of the customer and instruction managers before any call
InitLocals ==
    /\ profile0 = [u \in Units |-> NoProfile]
    /\ extraction = [u \in Units |-> NoExtraction]
    /\ context = [u \in Units |-> NoContext]
    /\ selected = [u \in Units |-> <<>>]
    /\ instruction = [u \in Units |-> <<>>]
    /\ fault = [u \in Units |-> "none"]

\* no profile is stored, the template store holds the default templates
InitManagers ==
    /\ profiles = [w \in Users |-> NoProfile]
    /\ now = 0
    /\ templates = DefaultTemplates
    /\ InitLocals

\* no request is being served; the handler holds a channel secret
InitIngressIdle ==
    /\ channel_secret = "k1"
    /\ environment = "production"
    /\ request = [u \in Units |-> NoRequest]
    /\ gate = [u \in Units |-> "closed"]
    /\ pending = [u \in Units |-> <<>>]
    /\ slot = [u \in Units |-> NoEvent]
    /\ http = [u \in Units |-> 0]
    /\ processed_events = [u \in Units |-> 0]

\* the router alone: any store of provider configs, no webhook traffic
InitRouter ==
    /\ configs \in ConfigStores
    /\ InitIngressIdle
    /\ InitManagers
    /\ InitRegistry
    /\ InitCall
    /\ InitHook
    /\ history = [w \in Users |-> <<>>]
    /\ cache = [t \in Texts |-> ""]

\* the webhook pipeline: provider configs over HookNames, stored histories, a warm cache
HookNames == {"A", "B"}
HookStores == {cfg \in ConfigStores : DOMAIN cfg \subseteq HookNames}

Init ==
    /\ configs \in HookStores
    /\ InitIngressIdle
    /\ InitManagers
    /\ InitRegistry
    /\ InitCall
    /\ InitHook
    /\ \E n \in HistoryLens : history = [w \in Users |-> IF w = "u1" THEN OldHistory(n) ELSE <<>>]
    /\ cache \in [Texts -> {"", "cached"}]

----------------------------------------------------------------------------
(* AIProviderManager operations *)

\* initialize(): load the registry once and set the primary
Initialize ==
    /\ ~initialized
    /\ \E order \in KeyOrders(configs) :
           providers' = load_providers_from_redis(providers, configs, order)
    /\ primary_provider' = PrimaryName
    /\ initialized' = TRUE
    /\ UNCHANGED <<ingressVars, customerVars, instructionVars, configs, reload, enable_fallback_providers, metrics, callVars, hookVars>>

\* reload_providers(): clear the registry and load it again
ReloadProviders ==
    /\ reload = NoReload
    /\ \A u \in Units : pc[u] \in {"idle", "done", "route_returned", "route_raised"}
    /\ \E order \in KeyOrders(configs) :
           /\ providers' = load_providers_from_redis(<<>>, configs, order)
           /\ providers' # providers
    /\ UNCHANGED <<ingressVars, customerVars, instructionVars, configs, reload, enable_fallback_providers, primary_provider, initialized,
                   metrics, callVars, hookVars>>

\* a direct caller of generate_response(messages, provider_name, use_fallback)
RouteCall(u, name, fb) ==
    /\ pc[u] = "idle"
    /\ pc' = [pc EXCEPT ![u] = "route"]
    /\ mode' = [mode EXCEPT ![u] = "direct"]
    /\ arg' = [arg EXCEPT ![u] = [provider_name |-> name, use_fallback |-> fb]]
    /\ UNCHANGED <<ingressVars, customerVars, instructionVars, routerVars, providers_to_try, idx, last_error, calls, routeOut,
                   routed, hookVars>>

\* generate_response, lines 159-180: initialize if needed, build the candidate list
RouteBegin(u) ==
    /\ pc[u] = "route"
    /\ \E order \in KeyOrders(configs) :
         LET regs == IF initialized THEN providers
                     ELSE load_providers_from_redis(providers, configs, order)
             prim == IF initialized THEN primary_provider ELSE PrimaryName
             cand == candidates(regs, prim, arg[u].provider_name, arg[u].use_fallback,
                                enable_fallback_providers)
         IN  /\ providers' = regs
             /\ primary_provider' = prim
             /\ initialized' = TRUE
             /\ providers_to_try' = [providers_to_try EXCEPT ![u] = cand]
             /\ idx' = [idx EXCEPT ![u] = 1]
             /\ last_error' = [last_error EXCEPT ![u] = None]
             /\ calls' = [calls EXCEPT ![u] = <<>>]
             /\ routed' = [routed EXCEPT ![u] = @ + 1]
             /\ IF cand = <<>>
                THEN /\ routeOut' = [routeOut EXCEPT ![u] =
                                        ManagerError("No available AI providers", None)]
                     /\ pc' = [pc EXCEPT ![u] = "route_raised"]
                ELSE /\ routeOut' = [routeOut EXCEPT ![u] = NoOut]
                     /\ pc' = [pc EXCEPT ![u] = "attempt"]
    /\ UNCHANGED <<ingressVars, customerVars, instructionVars, configs, reload, enable_fallback_providers, metrics, mode, arg, hookVars>>

\* the loop body up to the await: provider.generate_response is invoked
AttemptStart(u) ==
    /\ pc[u] = "attempt"
    /\ idx[u] <= Len(providers_to_try[u])
    /\ calls' = [calls EXCEPT ![u] =
                    Append(@, [name |-> providers_to_try[u][idx[u]].name, outcome |-> "pending"])]
    /\ pc' = [pc EXCEPT ![u] = "await_provider"]
    /\ UNCHANGED <<ingressVars, customerVars, instructionVars, routerVars, mode, arg, providers_to_try, idx, last_error, routeOut,
                   routed, hookVars>>

\* the adapter returned: record the success metric and return the response
AttemptOk(u) ==
    /\ pc[u] = "await_provider"
    /\ LET p == providers_to_try[u][idx[u]]
       IN  /\ calls' = [calls EXCEPT ![u][Len(calls[u])].outcome = "ok"]
           /\ metrics' = record_metric(metrics, u, "success", p.name, "")
           /\ routeOut' = [routeOut EXCEPT ![u] = Response(p)]
    /\ pc' = [pc EXCEPT ![u] = "route_returned"]
    /\ UNCHANGED <<ingressVars, customerVars, instructionVars, configs, reload, enable_fallback_providers, providers, primary_provider,
                   initialized, mode, arg, providers_to_try, idx, last_error,
                   routed, hookVars>>

\* the adapter raised: record the failure metric, go on to the next candidate,
\* or raise "All AI providers failed" when the loop ends
AttemptFail(u, e) ==
    /\ pc[u] = "await_provider"
    /\ LET p == providers_to_try[u][idx[u]]
           stop == ~arg[u].use_fallback \/ idx[u] = Len(providers_to_try[u])
       IN  /\ calls' = [calls EXCEPT ![u][Len(calls[u])].outcome = e]
           /\ last_error' = [last_error EXCEPT ![u] = e]
           /\ metrics' = record_metric(metrics, u, "error", p.name, e)
           /\ IF stop
              THEN /\ routeOut' = [routeOut EXCEPT ![u] =
                                      ManagerError("All AI providers failed", e)]
                   /\ pc' = [pc EXCEPT ![u] = "route_raised"]
                   /\ idx' = idx
              ELSE /\ routeOut' = routeOut
                   /\ pc' = [pc EXCEPT ![u] = "attempt"]
                   /\ idx' = [idx EXCEPT ![u] = @ + 1]
    /\ UNCHANGED <<ingressVars, customerVars, instructionVars, configs, reload, enable_fallback_providers, providers, primary_provider,
                   initialized, mode, arg, providers_to_try, routed, hookVars>>

RouteSteps(u) ==
    \/ RouteBegin(u)
    \/ AttemptStart(u)
    \/ AttemptOk(u)
    \/ \E e \in ProviderErrors : AttemptFail(u, e)

NextRouter ==
    \/ Initialize
    \/ ReloadProviders
    \/ \E u \in OneUnit, name \in Names \cup {NoName}, fb \in BOOLEAN : RouteCall(u, name, fb)
    \/ \E u \in OneUnit : RouteSteps(u)

SpecRouter == InitRouter /\ [][NextRouter]_vars

----------------------------------------------------------------------------
(* LineWebhookHandler operations *)

registryVars == <<configs, reload, enable_fallback_providers, providers, primary_provider, initialized>>
routeLocals == <<arg, providers_to_try, idx, last_error, calls, routeOut, routed>>

\* _record_event_metric: one hash written to the store per processed event
record_event_metric(log, u) ==
    Append(log, [metric_type |-> "line_event", provider |-> "", error |-> "", unit |-> u])

\* _process_event for an event the handlers only acknowledge
Acknowledge(u, e, kind) ==
    /\ pc[u] = "idle"
    /\ handler_for(e) = kind
    /\ ev' = [ev EXCEPT ![u] = e]
    /\ metrics' = record_event_metric(metrics, u)
    /\ result' = [result EXCEPT ![u] = Result(TRUE, FALSE, "", FALSE, "")]
    /\ pc' = [pc EXCEPT ![u] = "done"]
    /\ UNCHANGED <<ingressVars, customerVars, instructionVars, registryVars, mode, routeLocals, history, cache, cached_response, conversation,
                   ai_response_content, ai_provider, stages, sends, history0>>

\* _handle_message_event, lines 185-187: a message that is not text
HandleNonText(u, e) == Acknowledge(u, e, "non_text")

\* _update_customer_status: hset of status and updated_at
update_customer_status(h, status, t) == hset(hset(h, "status", status), "updated_at", t)

\* _handle_unfollow_event: the profile is marked unfollowed
HandleUnfollow(u, e) ==
    /\ pc[u] = "idle"
    /\ handler_for(e) = "unfollow"
    /\ ev' = [ev EXCEPT ![u] = e]
    /\ metrics' = record_event_metric(metrics, u)
    /\ profile0' = [profile0 EXCEPT ![u] = profiles[e.userId]]
    /\ profiles' = [profiles EXCEPT ![e.userId] = update_customer_status(@, "unfollowed", now)]
    /\ result' = [result EXCEPT ![u] = Result(TRUE, FALSE, "", FALSE, "")]
    /\ pc' = [pc EXCEPT ![u] = "done"]
    /\ UNCHANGED <<ingressVars, instructionVars, now, extraction, registryVars, mode,
                   routeLocals, history, cache, cached_response, conversation,
                   ai_response_content, ai_provider, stages, sends, history0>>

\* _handle_postback_event
HandlePostback(u, e) == Acknowledge(u, e, "postback")

\* _process_event, lines 170-172: any other event type
HandleUnhandled(u, e) == Acknowledge(u, e, "unhandled")

\* _update_customer_interaction: hset of last_interaction
update_customer_interaction(h, t) == hset(h, "last_interaction", t)

\* _create_customer_profile: a basic profile unless the key exists
create_customer_profile(h, user_id, t) ==
    IF DOMAIN h # {}
    THEN update_customer_interaction(h, t)
    ELSE [f \in {"user_id", "status", "created_at", "last_interaction", "message_count",
                 "source"} |->
             CASE f = "user_id" -> user_id
               [] f = "status" -> "active"
               [] f = "source" -> "line"
               [] f = "message_count" -> 0
               [] OTHER -> t]

\* _handle_follow_event: the profile is created and the welcome message is sent
\* (welcome_sent is kept in reply_sent)
HandleFollow(u, e, outcome) ==
    /\ pc[u] = "idle"
    /\ handler_for(e) = "follow"
    /\ ev' = [ev EXCEPT ![u] = e]
    /\ metrics' = record_event_metric(metrics, u)
    /\ profile0' = [profile0 EXCEPT ![u] = profiles[e.userId]]
    /\ profiles' = [profiles EXCEPT ![e.userId] = create_customer_profile(@, e.userId, now)]
    /\ LET sent == send_reply(e.replyToken, WelcomeText, outcome)
       IN  /\ sends' = [sends EXCEPT ![u] = Append(@, sent)]
           /\ result' = [result EXCEPT ![u] = Result(TRUE, FALSE, "", sent.ok, "")]
    /\ pc' = [pc EXCEPT ![u] = "done"]
    /\ UNCHANGED <<ingressVars, instructionVars, now, extraction, registryVars, mode, routeLocals, history, cache, cached_response, conversation,
                   ai_response_content, ai_provider, stages, history0>>

\* _process_event and _handle_message_event up to _update_customer_interaction
\* (lines 149-194)
HandleTextMessage(u, e) ==
    /\ pc[u] = "idle"
    /\ handler_for(e) = "text"
    /\ ev' = [ev EXCEPT ![u] = e]
    /\ metrics' = record_event_metric(metrics, u)
    /\ profile0' = [profile0 EXCEPT ![u] = profiles[e.userId]]
    /\ profiles' = [profiles EXCEPT ![e.userId] = update_customer_interaction(@, now)]
    /\ pc' = [pc EXCEPT ![u] = "extract"]
    /\ UNCHANGED <<ingressVars, instructionVars, now, extraction, registryVars, mode, routeLocals, history, cache, cached_response, conversation,
                   ai_response_content, ai_provider, stages, sends, result, history0>>

\* lines 196-198: customer_manager.process_message_for_extraction
ExtractAttributes(u) ==
    /\ pc[u] = "extract"
    /\ LET w == ev[u].userId
           r == process_message_for_extraction(profiles[w], w, ev[u].text, now)
       IN  /\ profiles' = [profiles EXCEPT ![w] = r.profile]
           /\ extraction' = [extraction EXCEPT ![u] = r.result]
    /\ stages' = [stages EXCEPT ![u] = Append(@, "Extracting")]
    /\ pc' = [pc EXCEPT ![u] = "cache_lookup"]
    /\ UNCHANGED <<ingressVars, instructionVars, now, profile0, registryVars, metrics, mode,
                   routeLocals, history, cache, ev, cached_response, conversation,
                   ai_response_content, ai_provider, sends, result, history0>>

\* lines 201-214: ask the cache; a hit supplies the answer
CacheLookup(u) ==
    /\ pc[u] = "cache_lookup"
    /\ LET cached == get_cached_response(cache, ev[u].text)
       IN  /\ cached_response' = [cached_response EXCEPT ![u] = cached]
           /\ pc' = [pc EXCEPT ![u] = after_cache_lookup(cached)]
           /\ IF cached # ""
              THEN /\ ai_response_content' = [ai_response_content EXCEPT ![u] = cached]
                   /\ ai_provider' = [ai_provider EXCEPT ![u] = "cache"]
              ELSE UNCHANGED <<ai_response_content, ai_provider>>
    /\ UNCHANGED <<ingressVars, customerVars, instructionVars, registryVars, metrics, mode, routeLocals, history, cache, ev,
                   conversation, stages, sends, result, history0>>

\* lines 216-223: context analysis and instruction synthesis, the message list, the route
\* call; f names the step of generate_dynamic_instructions that raises, "none" if none does
GetHistoryWith(u, f) ==
    /\ pc[u] = "get_history"
    /\ LET w == ev[u].userId
           history_messages ==
               [i \in 1..Len(recent_history(history[w])) |-> recent_history(history[w])[i].content]
           g == IF f = "none"
                THEN generate_dynamic_instructions(templates, profiles[w], ev[u].text,
                                                   history_messages, now)
                ELSE generate_dynamic_instructions_failing(templates, profiles[w], ev[u].text,
                                                           history_messages, now, f)
       IN  /\ context' = [context EXCEPT ![u] = g.context]
           /\ selected' = [selected EXCEPT ![u] = g.selected]
           /\ instruction' = [instruction EXCEPT ![u] = g.instruction]
           /\ conversation' = [conversation EXCEPT ![u] =
                                  build_conversation(history[w], ev[u].text, g.instruction)]
    /\ fault' = [fault EXCEPT ![u] = f]
    /\ stages' = [stages EXCEPT ![u] = @ \o <<"Analyzing", "Synthesizing">>]
    /\ mode' = [mode EXCEPT ![u] = "webhook"]
    /\ arg' = [arg EXCEPT ![u] = [provider_name |-> NoName, use_fallback |-> TRUE]]
    /\ pc' = [pc EXCEPT ![u] = "route"]
    /\ UNCHANGED <<ingressVars, customerVars, templates, registryVars, metrics, providers_to_try, idx, last_error, calls,
                   routeOut, routed, history, cache, ev, cached_response,
                   ai_response_content, ai_provider,
                   sends, result, history0>>

\* the same with no step raising
GetConversationHistory(u) == GetHistoryWith(u, "none")

\* lines 223-235: the router returned; keep the answer and store it in the cache
RouteReturned(u) ==
    /\ pc[u] = "route_returned"
    /\ mode[u] = "webhook"
    /\ ai_response_content' = [ai_response_content EXCEPT ![u] = routeOut[u].content]
    /\ ai_provider' = [ai_provider EXCEPT ![u] = routeOut[u].provider]
    /\ cache' = cache_response(cache, ev[u].text, routeOut[u].content)
    /\ pc' = [pc EXCEPT ![u] = "store_user"]
    /\ UNCHANGED <<ingressVars, customerVars, instructionVars, registryVars, metrics, mode, routeLocals, history, ev, cached_response, conversation,
                   stages, sends, result, history0>>

\* _store_conversation_turn, line 453: rpush of the user message
StoreUser(u) ==
    /\ pc[u] = "store_user"
    /\ history0' = [history0 EXCEPT ![u] = history[ev[u].userId]]
    /\ history' = [history EXCEPT ![ev[u].userId] = rpush(@, Entry("user", ev[u].text))]
    /\ pc' = [pc EXCEPT ![u] = "store_assistant"]
    /\ UNCHANGED <<ingressVars, customerVars, instructionVars, registryVars, metrics, mode, routeLocals, cache, ev, cached_response, conversation,
                   ai_response_content, ai_provider, stages, sends, result>>

\* _store_conversation_turn, line 454: rpush of the reply
StoreAssistant(u) ==
    /\ pc[u] = "store_assistant"
    /\ history' = [history EXCEPT ![ev[u].userId] =
                      rpush(@, Entry("assistant", ai_response_content[u]))]
    /\ pc' = [pc EXCEPT ![u] = "store_trim"]
    /\ UNCHANGED <<ingressVars, customerVars, instructionVars, registryVars, metrics, mode, routeLocals, cache, ev, cached_response, conversation,
                   ai_response_content, ai_provider, stages, sends, result, history0>>

\* _store_conversation_turn, lines 457-460: ltrim, then expire
StoreTrim(u) ==
    /\ pc[u] = "store_trim"
    /\ history' = [history EXCEPT ![ev[u].userId] = trim_conversation(@)]
    /\ stages' = [stages EXCEPT ![u] = Append(@, "Persisting")]
    /\ pc' = [pc EXCEPT ![u] = "reply"]
    /\ UNCHANGED <<ingressVars, customerVars, instructionVars, registryVars, metrics, mode, routeLocals, cache, ev, cached_response, conversation,
                   ai_response_content, ai_provider, sends, result, history0>>

\* lines 240-263: _send_reply with the answer, then the handler returns
SendReply(u, outcome) ==
    /\ pc[u] = "reply"
    /\ LET sent == send_reply(ev[u].replyToken, ai_response_content[u], outcome)
       IN  /\ sends' = [sends EXCEPT ![u] = Append(@, sent)]
           /\ result' = [result EXCEPT ![u] = message_result(ai_provider[u], sent.ok)]
    /\ stages' = [stages EXCEPT ![u] = Append(@, "Replying")]
    /\ pc' = [pc EXCEPT ![u] = "done"]
    /\ UNCHANGED <<ingressVars, customerVars, instructionVars, registryVars, metrics, mode, routeLocals, history, cache, ev,
                   cached_response, conversation, ai_response_content, ai_provider, history0>>

\* a failure arm that stores the turn, with the apology as the reply
HandleFailureStoring(u, outcome) ==
    /\ pc[u] = "route_raised"
    /\ mode[u] = "webhook"
    /\ LET sent == send_reply(ev[u].replyToken, failure_reply(routeOut[u]), outcome)
       IN  sends' = [sends EXCEPT ![u] = Append(@, sent)]
    /\ history' = [history EXCEPT ![ev[u].userId] =
                      rpush(rpush(@, Entry("user", ev[u].text)),
                            Entry("assistant", failure_reply(routeOut[u])))]
    /\ result' = [result EXCEPT ![u] = Result(FALSE, FALSE, "", FALSE, routeOut[u].text)]
    /\ pc' = [pc EXCEPT ![u] = "done"]
    /\ UNCHANGED <<ingressVars, customerVars, instructionVars, registryVars, metrics, mode,
                   routeLocals, cache, ev, cached_response, conversation,
                   ai_response_content, ai_provider, stages, history0>>

\* lines 265-277: generate_response raised; send the apology and return the failure
HandleFailure(u, outcome) ==
    /\ pc[u] = "route_raised"
    /\ mode[u] = "webhook"
    /\ LET sent == send_reply(ev[u].replyToken, failure_reply(routeOut[u]), outcome)
       IN  sends' = [sends EXCEPT ![u] = Append(@, sent)]
    /\ result' = [result EXCEPT ![u] = Result(FALSE, FALSE, "", FALSE, routeOut[u].text)]
    /\ pc' = [pc EXCEPT ![u] = "done"]
    /\ UNCHANGED <<ingressVars, customerVars, instructionVars, registryVars, metrics, mode, routeLocals, history, cache, ev,
                   cached_response, conversation, ai_response_content, ai_provider, stages, history0>>

Next ==
    \/ Initialize
    \/ ReloadProviders
    \/ \E u \in OneUnit, e \in Events : HandleNonText(u, e)
    \/ \E u \in OneUnit, e \in Events : HandleUnfollow(u, e)
    \/ \E u \in OneUnit, e \in Events : HandlePostback(u, e)
    \/ \E u \in OneUnit, e \in Events : HandleUnhandled(u, e)
    \/ \E u \in OneUnit, e \in Events, o \in TransportOutcomes : HandleFollow(u, e, o)
    \/ \E u \in OneUnit, e \in Events : HandleTextMessage(u, e)
    \/ \E u \in OneUnit : ExtractAttributes(u)
    \/ \E u \in OneUnit : CacheLookup(u)
    \/ \E u \in OneUnit : GetConversationHistory(u)
    \/ \E u \in OneUnit : RouteSteps(u)
    \/ \E u \in OneUnit : RouteReturned(u)
    \/ \E u \in OneUnit : StoreUser(u)
    \/ \E u \in OneUnit : StoreAssistant(u)
    \/ \E u \in OneUnit : StoreTrim(u)
    \/ \E u \in OneUnit, o \in TransportOutcomes : SendReply(u, o)
    \/ \E u \in OneUnit, o \in TransportOutcomes : HandleFailure(u, o)

Spec == Init /\ [][Next]_vars

----------------------------------------------------------------------------
(* LineWebhookHandler.handle_webhook *)

\* lines 67-68: `if not signature`: no header, or a header with empty text
signature_missing(sig) == ~sig.present \/ (~sig.prefix /\ sig.digest = NoDigest)

\* _verify_signature without the development bypass
verify_signature_no_bypass(secret, env, body, sig) ==
    secret # NoSecret /\ sig.digest = hmac_hex(secret, body)

\* _verify_signature: signature.replace("sha256=", "") leaves the digest text
verify_signature(secret, env, body, sig) ==
    IF secret = NoSecret
    THEN env = "development"
    ELSE sig.digest = hmac_hex(secret, body)

\* request.body() and request.headers.get("x-line-signature")
ReceiveWebhook(u, req) ==
    /\ gate[u] = "closed"
    /\ request' = [request EXCEPT ![u] = req]
    /\ gate' = [gate EXCEPT ![u] = "verify"]
    /\ UNCHANGED <<customerVars, instructionVars, routerVars, callVars, hookVars, channel_secret, environment, pending,
                   slot, http, processed_events>>

\* lines 66-81: the two signature checks (400) and json.loads (500 through the last except)
VerifySignature(u) ==
    /\ gate[u] = "verify"
    /\ LET req == request[u]
           ok == /\ ~signature_missing(req.signature)
                 /\ verify_signature(channel_secret, environment, req.body, req.signature)
       IN  IF ~ok
           THEN /\ http' = [http EXCEPT ![u] = 400]
                /\ gate' = [gate EXCEPT ![u] = "responded"]
                /\ UNCHANGED pending
           ELSE IF ~req.body.json
           THEN /\ http' = [http EXCEPT ![u] = 500]
                /\ gate' = [gate EXCEPT ![u] = "responded"]
                /\ UNCHANGED pending
           ELSE /\ pending' = [pending EXCEPT ![u] = req.body.events]
                /\ gate' = [gate EXCEPT ![u] = "open"]
                /\ UNCHANGED http
    /\ UNCHANGED <<customerVars, instructionVars, routerVars, callVars, hookVars, channel_secret, environment, request,
                   slot, processed_events>>

\* lines 89-91: the loop takes the next event and calls _process_event
TakeEvent(u) ==
    /\ gate[u] = "open"
    /\ slot[u] = NoEvent
    /\ pending[u] # <<>>
    /\ slot' = [slot EXCEPT ![u] = Head(pending[u])]
    /\ pending' = [pending EXCEPT ![u] = Tail(@)]
    /\ processed_events' = [processed_events EXCEPT ![u] = @ + 1]
    /\ UNCHANGED <<customerVars, instructionVars, routerVars, callVars, hookVars, channel_secret, environment, request,
                   gate, http>>

\* line 92: _process_event returned; its locals are gone and the loop goes on
EventDone(u) ==
    /\ gate[u] = "open"
    /\ slot[u] # NoEvent
    /\ pc[u] = "done"
    /\ slot' = [slot EXCEPT ![u] = NoEvent]
    /\ pc' = [pc EXCEPT ![u] = "idle"]
    /\ mode' = [mode EXCEPT ![u] = "none"]
    /\ arg' = [arg EXCEPT ![u] = [provider_name |-> NoName, use_fallback |-> TRUE]]
    /\ providers_to_try' = [providers_to_try EXCEPT ![u] = <<>>]
    /\ idx' = [idx EXCEPT ![u] = 0]
    /\ last_error' = [last_error EXCEPT ![u] = None]
    /\ calls' = [calls EXCEPT ![u] = <<>>]
    /\ routeOut' = [routeOut EXCEPT ![u] = NoOut]
    /\ ev' = [ev EXCEPT ![u] = NoEvent]
    /\ cached_response' = [cached_response EXCEPT ![u] = ""]
    /\ conversation' = [conversation EXCEPT ![u] = <<>>]
    /\ ai_response_content' = [ai_response_content EXCEPT ![u] = ""]
    /\ ai_provider' = [ai_provider EXCEPT ![u] = ""]
    /\ stages' = [stages EXCEPT ![u] = <<>>]
    /\ sends' = [sends EXCEPT ![u] = <<>>]
    /\ result' = [result EXCEPT ![u] = NoResult]
    /\ history0' = [history0 EXCEPT ![u] = <<>>]
    /\ profile0' = [profile0 EXCEPT ![u] = NoProfile]
    /\ extraction' = [extraction EXCEPT ![u] = NoExtraction]
    /\ context' = [context EXCEPT ![u] = NoContext]
    /\ selected' = [selected EXCEPT ![u] = <<>>]
    /\ instruction' = [instruction EXCEPT ![u] = <<>>]
    /\ fault' = [fault EXCEPT ![u] = "none"]
    /\ UNCHANGED <<routerVars, routed, history, cache, profiles, now, templates,
                   channel_secret, environment, request, gate, pending, http,
                   processed_events>>

\* lines 96-100: every event was processed; the request is answered
Respond(u) ==
    /\ gate[u] = "open"
    /\ slot[u] = NoEvent
    /\ pending[u] = <<>>
    /\ http' = [http EXCEPT ![u] = 200]
    /\ gate' = [gate EXCEPT ![u] = "responded"]
    /\ UNCHANGED <<customerVars, instructionVars, routerVars, callVars, hookVars, channel_secret, environment, request,
                   pending, slot, processed_events>>

\* _process_event is entered with the event the loop holds
Dispatching(u) == gate[u] = "open" /\ slot[u] # NoEvent

InitIngress ==
    /\ configs = [n \in {"A"} |-> ValidStored(TRUE, 1)]
    /\ InitRegistry
    /\ InitCall
    /\ InitHook
    /\ history = [w \in Users |-> <<>>]
    /\ cache = [t \in Texts |-> ""]
    /\ InitManagers
    /\ channel_secret \in {NoSecret, "k1"}
    /\ environment \in {"development", "production"}
    /\ request = [u \in Units |-> NoRequest]
    /\ gate = [u \in Units |-> "closed"]
    /\ pending = [u \in Units |-> <<>>]
    /\ slot = [u \in Units |-> NoEvent]
    /\ http = [u \in Units |-> 0]
    /\ processed_events = [u \in Units |-> 0]

NextIngress ==
    \/ \E u \in OneUnit, req \in Requests : ReceiveWebhook(u, req)
    \/ \E u \in OneUnit : VerifySignature(u)
    \/ \E u \in OneUnit : TakeEvent(u)
    \/ \E u \in OneUnit : Dispatching(u) /\ HandleUnfollow(u, slot[u])
    \/ \E u \in OneUnit : Dispatching(u) /\ HandleTextMessage(u, slot[u])
    \/ \E u \in OneUnit : ExtractAttributes(u)
    \/ \E u \in OneUnit : CacheLookup(u)
    \/ \E u \in OneUnit : GetConversationHistory(u)
    \/ \E u \in OneUnit : RouteSteps(u)
    \/ \E u \in OneUnit : RouteReturned(u)
    \/ \E u \in OneUnit : StoreUser(u)
    \/ \E u \in OneUnit : StoreAssistant(u)
    \/ \E u \in OneUnit : StoreTrim(u)
    \/ \E u \in OneUnit, o \in TransportOutcomes : SendReply(u, o)
    \/ \E u \in OneUnit, o \in TransportOutcomes : HandleFailure(u, o)
    \/ \E u \in OneUnit : EventDone(u)
    \/ \E u \in OneUnit : Respond(u)

SpecIngress == InitIngress /\ [][NextIngress]_vars

----------------------------------------------------------------------------
(* Direct calls of InstructionManager.generate_dynamic_instructions *)

\* latest day the clock reaches
MaxClock == 2

\* template stores an administrator can leave behind, and the orders KEYS can list them in
CrowdedTemplates ==
    [i \in 1..5 |-> Template("p" \o ToString(i), TRUE, "pricing", {}, 5,
                             Content("p" \o ToString(i), {}))]
    \o <<Template("promo", TRUE, "pricing", {}, 1, Content("promo", {"{customer_name}"}))>>
DisabledTemplates ==
    <<Template("pricing_service", FALSE, "pricing", {"price", "cost"}, 4,
               Content("pricing_service", {})),
      Template("new_customer_welcome", FALSE, "service", {"new", "first"}, 3,
               Content("new_customer_welcome", {}))>>
IndexOrders(n) == {f \in [1..n -> 1..n] : \A i, j \in 1..n : i # j => f[i] # f[j]}
Listings(store) == {[i \in 1..Len(store) |-> store[f[i]]] : f \in IndexOrders(Len(store))}
TemplateListings ==
    Listings(DefaultTemplates) \cup Listings(DisabledTemplates) \cup Listings(CrowdedTemplates)

\* profiles a user can have: none, the hash a first text message leaves, full profiles
StoredProfile(name, message_count) ==
    [create_customer(NoProfile, "u1", 0) EXCEPT !["name"] = name,
                                                !["message_count"] = message_count]
ProbeProfiles ==
    {NoProfile, update_customer_interaction(NoProfile, 0), StoredProfile("", 3),
     StoredProfile("John", RegularMessages), StoredProfile("John", VipMessages)}
ProbeHistories == {<<>>, <<Entry("user", "price"), Entry("assistant", "answer")>>}
ProbeTexts == {"hi", "price? urgent", "price, name John", "my first print"}

InitSynthesis ==
    /\ configs = [n \in {"A"} |-> ValidStored(TRUE, 1)]
    /\ reload = NoReload
    /\ enable_fallback_providers = TRUE
    /\ providers = <<>>
    /\ primary_provider = None
    /\ initialized = FALSE
    /\ metrics = <<>>
    /\ InitCall
    /\ InitHook
    /\ InitIngressIdle
    /\ InitLocals
    /\ cache = [t \in Texts |-> ""]
    /\ \E h \in ProbeHistories : history = [w \in Users |-> IF w = "u1" THEN h ELSE <<>>]
    /\ \E p \in ProbeProfiles : profiles = [w \in Users |-> IF w = "u1" THEN p ELSE NoProfile]
    /\ now = 0
    /\ templates \in TemplateListings

\* a day passes
Tick ==
    /\ now < MaxClock
    /\ now' = now + 1
    /\ UNCHANGED <<routerVars, callVars, hookVars, ingressVars, instructionVars, profiles,
                   profile0, extraction>>

\* generate_dynamic_instructions(user_id, user_message, conversation_history) called
\* with the contents of the user's stored history
GenerateInstructions(u, w, m) ==
    /\ pc[u] = "idle"
    /\ mode' = [mode EXCEPT ![u] = "direct"]
    /\ ev' = [ev EXCEPT ![u] = [type |-> "direct", userId |-> w, message_type |-> "text",
                                text |-> m, replyToken |-> FALSE]]
    /\ LET history_messages == [i \in 1..Len(history[w]) |-> history[w][i].content]
           g == generate_dynamic_instructions(templates, profiles[w], m, history_messages, now)
       IN  /\ context' = [context EXCEPT ![u] = g.context]
           /\ selected' = [selected EXCEPT ![u] = g.selected]
           /\ instruction' = [instruction EXCEPT ![u] = g.instruction]
    /\ pc' = [pc EXCEPT ![u] = "done"]
    /\ UNCHANGED <<ingressVars, customerVars, templates, fault, routerVars, arg, providers_to_try,
                   idx, last_error, calls, routeOut, routed, history, cache, cached_response,
                   conversation, ai_response_content, ai_provider, stages, sends, result,
                   history0>>

NextSynthesis ==
    \/ Tick
    \/ \E u \in OneUnit, w \in Users, m \in ProbeTexts : GenerateInstructions(u, w, m)

SpecSynthesis == InitSynthesis /\ [][NextSynthesis]_vars

----------------------------------------------------------------------------
(* Webhook requests whose text messages carry customer attributes *)

\* a template an administrator added: it addresses the customer by name
PersonalTemplates ==
    DefaultTemplates
    \o <<Template("personal_pricing", TRUE, "pricing", {"price"}, 2,
                  Content("personal_pricing", {"{customer_name}"}))>>

ProfileTexts ==
    {"hi", "hello name John, tel 081-234-5678", "name Jo, tel 081234567",
     "price, name John", "mail A@B.co", "mail x@y.io", "tel 02-123-4567 or 0891234567"}
ProfileEvents ==
    [type : {"message"}, userId : {"u1"}, message_type : {"text"}, text : ProfileTexts,
     replyToken : {TRUE}]
    \cup [type : {"follow"}, userId : {"u1"}, message_type : {""}, text : {""},
          replyToken : {TRUE}]
\* bodies of one or two events, each signed with the channel secret
ProfileBodies ==
    {[json |-> TRUE, events |-> <<e>>] : e \in ProfileEvents}
    \cup {[json |-> TRUE, events |-> <<e1, e2>>] : e1, e2 \in ProfileEvents}
ProfileRequests ==
    {[body |-> b,
      signature |-> [present |-> TRUE, prefix |-> FALSE, digest |-> hmac_hex("k1", b)]] :
        b \in ProfileBodies}

InitProfile ==
    /\ configs = [n \in {"A"} |-> ValidStored(TRUE, 1)]
    /\ reload = NoReload
    /\ enable_fallback_providers = TRUE
    /\ providers = <<>>
    /\ primary_provider = None
    /\ initialized = FALSE
    /\ metrics = <<>>
    /\ InitCall
    /\ InitHook
    /\ InitIngressIdle
    /\ InitLocals
    /\ history = [w \in Users |-> <<>>]
    /\ cache = [t \in ProfileTexts |-> ""]
    /\ profiles = [w \in Users |-> NoProfile]
    /\ now = 0
    /\ templates \in {DefaultTemplates, PersonalTemplates}

NextProfile ==
    \/ Tick
    \/ \E u \in OneUnit, req \in ProfileRequests : ReceiveWebhook(u, req)
    \/ \E u \in OneUnit : VerifySignature(u)
    \/ \E u \in OneUnit : TakeEvent(u)
    \/ \E u \in OneUnit, o \in TransportOutcomes :
           Dispatching(u) /\ HandleFollow(u, slot[u], o)
    \/ \E u \in OneUnit : Dispatching(u) /\ HandleTextMessage(u, slot[u])
    \/ \E u \in OneUnit : ExtractAttributes(u)
    \/ \E u \in OneUnit : CacheLookup(u)
    \/ \E u \in OneUnit : GetConversationHistory(u)
    \/ \E u \in OneUnit : RouteSteps(u)
    \/ \E u \in OneUnit : RouteReturned(u)
    \/ \E u \in OneUnit : StoreUser(u)
    \/ \E u \in OneUnit : StoreAssistant(u)
    \/ \E u \in OneUnit : StoreTrim(u)
    \/ \E u \in OneUnit, o \in TransportOutcomes : SendReply(u, o)
    \/ \E u \in OneUnit, o \in TransportOutcomes : HandleFailure(u, o)
    \/ \E u \in OneUnit : EventDone(u)
    \/ \E u \in OneUnit : Respond(u)

SpecProfile == InitProfile /\ [][NextProfile]_vars

----------------------------------------------------------------------------
(* Properties of the provider router *)

\* metrics of one kind written by the generate_response call of unit u
UnitMetrics(u, kind) == SelectSeq(metrics, LAMBDA m : m.unit = u /\ m.metric_type = kind)

\* fallback is permitted for the running call: no explicit adapter, use_fallback, and the setting
FallbackPermitted(u) ==
    /\ arg[u].provider_name = NoName
    /\ arg[u].use_fallback
    /\ enable_fallback_providers

\* the first m candidates were invoked and failed, candidate m + 1 was invoked and succeeded
FirstFailThenSuccess(u, m) ==
    /\ m + 1 <= Len(providers_to_try[u])
    /\ Len(calls[u]) >= m + 1
    /\ \A i \in 1..m : /\ calls[u][i].name = providers_to_try[u][i].name
                       /\ calls[u][i].outcome \in ProviderErrors
    /\ calls[u][m + 1].name = providers_to_try[u][m + 1].name
    /\ calls[u][m + 1].outcome = "ok"

\* C1: with fallback permitted, if the first M candidates fail and candidate M+1 succeeds,
\* the call returns the response of candidate M+1 (its provider field names that adapter)
\* and exactly M failure metrics and exactly one success metric are recorded for the call.
C1_FirstSuccessWins ==
    \A u \in Units : \A m \in 0..Cardinality(Names) :
        (FallbackPermitted(u) /\ FirstFailThenSuccess(u, m)) =>
            /\ pc[u] = "route_returned"
            /\ routeOut[u] = Response(providers_to_try[u][m + 1])
            /\ routeOut[u].provider = providers_to_try[u][m + 1].name
            /\ Len(UnitMetrics(u, "error")) = m
            /\ \A i \in 1..m :
                   UnitMetrics(u, "error")[i].provider = providers_to_try[u][i].name
            /\ Len(UnitMetrics(u, "success")) = 1
            /\ UnitMetrics(u, "success")[1].provider = providers_to_try[u][m + 1].name

\* two candidates failed and the third one answered
C1_Witness ==
    \E u \in Units :
        /\ FallbackPermitted(u)
        /\ FirstFailThenSuccess(u, 2)
        /\ pc[u] = "route_returned"

\* C2: within one route call every candidate is invoked at most once, the candidates are
\* invoked one after another in candidate order, never two at a time, and no adapter is
\* invoked after the first successful one.
C2_SequentialNoRetry ==
    \A u \in Units :
        /\ Len(calls[u]) <= Len(providers_to_try[u])
        /\ \A i \in 1..Len(calls[u]) : calls[u][i].name = providers_to_try[u][i].name
        /\ \A i, j \in 1..Len(calls[u]) : i # j => calls[u][i].name # calls[u][j].name
        /\ \A i \in 1..(Len(calls[u]) - 1) : calls[u][i].outcome \in ProviderErrors
        /\ Cardinality({i \in 1..Len(calls[u]) : calls[u][i].outcome = "pending"}) <= 1

\* all three candidates were invoked, each once, and the call failed
C2_Witness ==
    \E u \in Units :
        /\ pc[u] = "route_raised"
        /\ Len(calls[u]) = 3
        /\ Len(providers_to_try[u]) = 3

\* the generate_response call of unit u is over
RouteEnded(u) == routed[u] > 0 /\ pc[u] \notin {"route", "attempt", "await_provider"}

\* C3: if every configured adapter is disabled, or none is configured, route fails with
\* the manager's error and no adapter's generate_response is invoked, with or without an
\* explicit adapter name.
C3_NoCallWhenNoneEnabled ==
    \A u \in Units :
        (\A n \in DOMAIN configs : ~configs[n].enabled) =>
            /\ calls[u] = <<>>
            /\ RouteEnded(u) => routeOut[u].kind = "error"

\* the adapter registered under name n, or NoProvider
Registered(n) ==
    IF \E i \in 1..Len(providers) : providers[i].name = n
    THEN providers[CHOOSE i \in 1..Len(providers) : providers[i].name = n]
    ELSE NoProvider

EnabledAdapters == {providers[i] : i \in {j \in 1..Len(providers) : providers[j].enabled}}

\* C4: get_provider with a name returns the adapter registered under it, enabled or not
\* (none if unregistered); without a name it returns the primary if registered and
\* enabled, otherwise an enabled adapter of highest priority, otherwise none; it never
\* returns a disabled adapter when no name is given.  The first routing candidate of a
\* call without a name is that adapter.
C4_Resolve ==
    LET r == get_provider(providers, primary_provider, NoName)
        prim == Registered(primary_provider)
    IN  /\ \A n \in Names : get_provider(providers, primary_provider, n) = Registered(n)
        /\ IF prim # NoProvider /\ prim.enabled THEN r = prim
           ELSE IF EnabledAdapters # {}
                THEN /\ r \in EnabledAdapters
                     /\ \A q \in EnabledAdapters : r.priority >= q.priority
                ELSE r = NoProvider
        /\ r = NoProvider \/ r.enabled
        /\ \A u \in Units :
               (pc[u] \in {"attempt", "await_provider"} /\ arg[u].provider_name = NoName) =>
                   providers_to_try[u][1] = r

\* the primary is registered but disabled and a call starts with another, enabled adapter
C4_Witness ==
    \E u \in Units :
        /\ pc[u] = "attempt"
        /\ arg[u].provider_name = NoName
        /\ Registered(primary_provider) # NoProvider
        /\ ~Registered(primary_provider).enabled
        /\ providers_to_try[u][1].name # primary_provider
        /\ providers_to_try[u][1].enabled
        /\ \E q \in EnabledAdapters : q.priority < providers_to_try[u][1].priority

\* C5: for the same set of configs the order of the enabled adapters, the adapter resolved
\* without a name and the fallback order are the same whatever order the configs were
\* loaded in.
C5_LoadOrderIndependent ==
    initialized =>
        \A order \in KeyOrders(configs) :
            LET alt == load_providers_from_redis(<<>>, configs, order)
            IN  /\ get_enabled_providers(alt) = get_enabled_providers(providers)
                /\ get_provider(alt, primary_provider, NoName)
                       = get_provider(providers, primary_provider, NoName)
                /\ candidates(alt, primary_provider, NoName, TRUE, TRUE)
                       = candidates(providers, primary_provider, NoName, TRUE, TRUE)

----------------------------------------------------------------------------
(* Properties of the webhook pipeline *)

IsTextMessage(e) == e.type = "message" /\ e.message_type = "text"

Ran(u, stage) == \E i \in 1..Len(stages[u]) : stages[u][i] = stage

\* the last two stored messages of the user of unit u are the turn of unit u
TurnStored(u) ==
    LET h == history[ev[u].userId]
    IN  /\ Len(h) >= 2
        /\ h[Len(h) - 1] = Entry("user", ev[u].text)
        /\ h[Len(h)] = Entry("assistant", ai_response_content[u])

\* C6: when the cache reports a hit for a text message, the unit runs no context analysis,
\* no instruction synthesis and no route call, and still persists the turn (user message
\* plus cached answer) and sends the cached answer as the reply.
C6_CacheHitShortCircuits ==
    \A u \in Units :
        cached_response[u] # "" =>
            /\ ~Ran(u, "Analyzing")
            /\ ~Ran(u, "Synthesizing")
            /\ routed[u] = 0
            /\ calls[u] = <<>>
            /\ pc[u] \in {"store_user", "store_assistant", "store_trim", "reply", "done"}
            /\ ai_response_content[u] = cached_response[u]
            /\ pc[u] = "done" =>
                   /\ Ran(u, "Persisting")
                   /\ TurnStored(u)
                   /\ Len(sends[u]) = 1
                   /\ sends[u][1].text = cached_response[u]

\* a cached answer was stored as the turn and delivered
C6_Witness ==
    \E u \in Units :
        /\ pc[u] = "done"
        /\ cached_response[u] = "cached"
        /\ TurnStored(u)
        /\ sends[u][1].ok

C8_DeliveryFailureKeepsTurn ==
    \A u \in Units :
        (pc[u] = "done" /\ Ran(u, "Replying") /\ ~sends[u][Len(sends[u])].ok) =>
            /\ TurnStored(u)
            /\ Len(sends[u]) = 1
            /\ result[u].success
            /\ result[u].message_processed
            /\ ~result[u].reply_sent

\* the transport raised while the reply of a routed answer was delivered
C8_Witness ==
    \E u \in Units :
        /\ pc[u] = "done"
        /\ Ran(u, "Replying")
        /\ sends[u][1].outcome = "raised"
        /\ routeOut[u].kind = "response"
        /\ TurnStored(u)

\* C9: when Routing fails for a text message (every candidate fails, or none is
\* available), exactly one reply is sent for the event (one _send_reply call), and it is
\* the fixed apology text, never the text of the underlying error.
C9_RoutingFailureApology ==
    \A u \in Units :
        (IsTextMessage(ev[u]) /\ routeOut[u].kind = "error") =>
            /\ pc[u] \in {"route_raised", "done"}
            /\ pc[u] = "route_raised" => sends[u] = <<>>
            /\ pc[u] = "done" =>
                   /\ Len(sends[u]) = 1
                   /\ sends[u][1].text = ApologyText
                   /\ sends[u][1].text # routeOut[u].text
                   /\ sends[u][1].text # routeOut[u].cause
                   /\ ~result[u].success

\* every candidate failed and the apology was delivered
C9_Witness ==
    \E u \in Units :
        /\ pc[u] = "done"
        /\ IsTextMessage(ev[u])
        /\ routeOut[u].kind = "error"
        /\ routeOut[u].cause \in ProviderErrors
        /\ Len(calls[u]) = 2
        /\ sends[u][1].ok

\* C10: only a message event whose message is text runs the pipeline and invokes the
\* router; every other event type (follow, unfollow, postback, unknown) and every non-text
\* message is acknowledged as success without any provider call.
C10_OnlyTextRunsPipeline ==
    \A u \in Units :
        /\ (routed[u] > 0 \/ stages[u] # <<>> \/ calls[u] # <<>>) => IsTextMessage(ev[u])
        /\ (ev[u] # NoEvent /\ ~IsTextMessage(ev[u])) =>
               /\ pc[u] = "done"
               /\ result[u].success
               /\ routed[u] = 0
               /\ calls[u] = <<>>
               /\ stages[u] = <<>>

\* an image message was acknowledged, and so was a follow event with its welcome
C10_Witness ==
    \E u \in Units :
        /\ pc[u] = "done"
        /\ result[u].success
        /\ routed[u] = 0
        /\ \/ ev[u].type = "message" /\ ev[u].message_type = "image"
           \/ ev[u].type = "beacon"

----------------------------------------------------------------------------
(* Properties of handle_webhook *)

\* the signature is the digest of the request body under the configured channel secret
SignatureOfBody(u) ==
    /\ channel_secret # NoSecret
    /\ ~signature_missing(request[u].signature)
    /\ request[u].signature.digest = hmac_hex(channel_secret, request[u].body)

\* the request was refused with status 400 and none of its events was processed
Refused(u) ==
    /\ gate[u] = "responded"
    /\ http[u] = 400
    /\ processed_events[u] = 0
    /\ pc[u] = "idle"
    /\ ev[u] = NoEvent

Accepted(u) ==
    /\ ~signature_missing(request[u].signature)
    /\ IF channel_secret = NoSecret
       THEN environment = "development"
       ELSE request[u].signature.digest = hmac_hex(channel_secret, request[u].body)

----------------------------------------------------------------------------
(* Properties of the instruction manager *)

\* the unit made a direct call of generate_dynamic_instructions and it returned
Generated(u) == mode[u] = "direct" /\ pc[u] = "done" /\ ev[u].type = "direct"

\* some enabled template of the store matches the context
SomeTemplateMatches(ctx) ==
    \E i \in 1..Len(templates) : templates[i].enabled /\ matches_context(templates[i], ctx)

\* C12: generate_dynamic_instructions never returns empty text, whatever the message,
\* history, profile and template store; when no enabled template matches the context it
\* returns exactly the canonical default instruction.
C12_NeverEmpty ==
    \A u \in Units :
        Generated(u) =>
            /\ instruction[u] # <<>>
            /\ \A i \in 1..Len(instruction[u]) : instruction[u][i].body # ""
            /\ ~SomeTemplateMatches(context[u]) => instruction[u] = DefaultInstruction

\* a call that found templates in the store but none that matched
C12_Witness ==
    \E u \in Units :
        /\ Generated(u)
        /\ templates # <<>>
        /\ ~SomeTemplateMatches(context[u])
        /\ instruction[u] = DefaultInstruction

\* the arguments of the direct call of unit u
CallCustomer(u) == get_customer(profiles[ev[u].userId])
CallHistory(u) ==
    [i \in 1..Len(history[ev[u].userId]) |-> history[ev[u].userId][i].content]

\* C15: context analysis is a pure function of message, history and profile snapshot:
\* the context a call returned is the context the same arguments give at every
\* time of the clock.
C15_SameContextAtAnyTime ==
    \A u \in Units :
        Generated(u) =>
            \A t \in 0..MaxClock :
                analyze_context(CallCustomer(u), ev[u].text, CallHistory(u), t) = context[u]

\* position of template i among the enabled matching templates after the stable sort:
\* the templates of higher priority, and those of equal priority listed before it
Ahead(i, ctx) ==
    {j \in 1..Len(templates) :
        /\ templates[j].enabled
        /\ matches_context(templates[j], ctx)
        /\ \/ templates[j].priority > templates[i].priority
           \/ templates[j].priority = templates[i].priority /\ j < i}
IsSelected(u, i) == \E k \in 1..Len(selected[u]) : selected[u][k] = templates[i]
CategoryDetected(u, i) ==
    templates[i].enabled /\ templates[i].category \in context[u].domains

\* C16: an enabled template whose category is a detected domain is in the selected set,
\* whether or not a trigger matches and whatever else the template store holds.
C16_CategoryMatchSelected ==
    \A u \in Units :
        Generated(u) =>
            \A i \in 1..Len(templates) : CategoryDetected(u, i) => IsSelected(u, i)

\* C16 (amended): an enabled template whose category is a detected domain is in the
\* selected set, whether or not a trigger matches, when fewer than five enabled matching
\* templates are ahead of it in priority order.
C16_CategoryMatchSelectedWithinLimit ==
    \A u \in Units :
        Generated(u) =>
            \A i \in 1..Len(templates) :
                (CategoryDetected(u, i) /\ Cardinality(Ahead(i, context[u])) < SelectionLimit)
                    => IsSelected(u, i)

\* a template selected for its category alone, with none of its triggers matching
C16_Witness ==
    \E u \in Units :
        /\ Generated(u)
        /\ \E i \in 1..Len(templates) :
               /\ CategoryDetected(u, i)
               /\ templates[i].triggers # {}
               /\ ~matches_context_triggers_only(templates[i], context[u])
               /\ context[u].domain_weights[templates[i].category] = 2
               /\ IsSelected(u, i)

----------------------------------------------------------------------------
(* Properties of the customer profile in the message pipeline *)

\* unit u handles a text message and process_message_for_extraction has just returned
Extracted(u) == ev[u].type = "message" /\ pc[u] = "cache_lookup"

\* C13: attribute extraction is idempotent: a second run of
\* process_message_for_extraction with the same message, on the profile the first run
\* left, changes no field, reports no change, and leaves the same profile.
C13_ExtractionIdempotent ==
    \A u \in Units :
        Extracted(u) =>
            \A t \in now..MaxClock :
                LET w == ev[u].userId
                    again == process_message_for_extraction(profiles[w], w, ev[u].text, t)
                IN  /\ again.profile = profiles[w]
                    /\ again.result.changes = {}
                    /\ ~again.result.updated

\* the first run wrote fields of the profile, and a second run at a later time writes none
C13_Witness ==
    \E u \in Units :
        /\ Extracted(u)
        /\ extraction[u].changes = ExtractedFields \ {"email"}
        /\ now < MaxClock
        /\ process_message_for_extraction(profiles[ev[u].userId], ev[u].userId,
                                          ev[u].text, MaxClock).profile
               = profiles[ev[u].userId]

\* texts that contain "@" and "."
EmailShaped == {"a@b.co", "x@y.io"}
\* the new value is more complete than the stored one
MoreComplete(current_value, new_value, field) ==
    IF field = "email"
    THEN new_value \in EmailShaped
    ELSE Len(new_value) > Len(current_value)
Stored(h, f) == hget(h, f, "")

\* C14: merge policy for phone, email and name: an empty stored value is replaced by a
\* non-empty extracted value; a non-empty stored value is replaced only by a different,
\* more complete value (longer phone or name, well-formed email); in no step of any
\* sequence of messages is a stored value replaced by a worse one or erased.
C14_MergePolicy ==
    [][\A w \in Users, f \in ExtractedFields :
           /\ Stored(profiles[w], f) # Stored(profiles'[w], f) =>
                  /\ Stored(profiles'[w], f) # ""
                  /\ \/ Stored(profiles[w], f) = ""
                     \/ MoreComplete(Stored(profiles[w], f), Stored(profiles'[w], f), f)
           /\ \A u \in Units :
                  (pc[u] = "extract" /\ pc'[u] = "cache_lookup" /\ ev[u].userId = w
                   /\ Stored(profiles[w], f) = "") =>
                      Stored(profiles'[w], f) = extraction'[u].extracted[f]]_vars

\* a shorter name and a shorter phone were extracted and the stored values were kept
C14_Witness ==
    \E u \in Units :
        /\ Extracted(u)
        /\ \A f \in {"name", "phone"} :
               /\ extraction[u].extracted[f] # ""
               /\ Stored(profile0[u], f) # ""
               /\ Len(extraction[u].extracted[f]) < Len(Stored(profile0[u], f))
               /\ Stored(profiles[ev[u].userId], f) = Stored(profile0[u], f)

\* unit u handles a text message and generate_dynamic_instructions has just returned
Analyzed(u) == ev[u].type = "message" /\ pc[u] = "route" /\ mode[u] = "webhook"
IsGreeting(text) == StageRules[1].words \cap Keywords(text) # {}
FirstContact(u) == DOMAIN profile0[u] = {} /\ history[ev[u].userId] = <<>>

\* C17: a greeting message from a user with no prior profile, on first contact, is
\* classified as stage greeting.
C17_FirstContactGreeting ==
    \A u \in Units :
        (Analyzed(u) /\ IsGreeting(ev[u].text) /\ FirstContact(u)) =>
            context[u].conversation_stage = "greeting"

\* C17 (amended): a greeting message is classified as stage initial when the stored
\* history of the user is empty, as it is on first contact, and as stage greeting when
\* the history is not empty.
C17_GreetingStageByHistory ==
    \A u \in Units :
        (Analyzed(u) /\ IsGreeting(ev[u].text)) =>
            context[u].conversation_stage =
                IF history[ev[u].userId] = <<>> THEN "initial" ELSE "greeting"

\* a greeting on first contact, classified as initial
C17_Witness ==
    \E u \in Units :
        /\ Analyzed(u)
        /\ IsGreeting(ev[u].text)
        /\ FirstContact(u)
        /\ context[u].conversation_stage = "initial"

\* C18: for a text message from a user with no stored profile, a profile with user_id,
\* created_at, message_count and status exists once extraction has run, and the stored
\* profile keeps those fields with the extracted ones.
C18_ProfileCreatedOnFirstMessage ==
    \A u \in Units :
        (ev[u].type = "message" /\ pc[u] \notin {"idle", "extract"}
         /\ DOMAIN profile0[u] = {}) =>
            {"user_id", "created_at", "message_count", "status"}
                \subseteq DOMAIN profiles[ev[u].userId]

\* the two orders of analysis and extraction for the message unit u is about to extract
AnalysisFirst(u) ==
    LET w == ev[u].userId
        h == [i \in 1..Len(recent_history(history[w])) |-> recent_history(history[w])[i].content]
    IN  [instruction |->
             generate_dynamic_instructions(templates, profiles[w], ev[u].text, h, now).instruction,
         profile |-> process_message_for_extraction(profiles[w], w, ev[u].text, now).profile]
ExtractionFirst(u) ==
    LET w == ev[u].userId
        h == [i \in 1..Len(recent_history(history[w])) |-> recent_history(history[w])[i].content]
        p == process_message_for_extraction(profiles[w], w, ev[u].text, now).profile
    IN  [instruction |->
             generate_dynamic_instructions(templates, p, ev[u].text, h, now).instruction,
         profile |-> p]

\* C20: the synthesized instruction and the final profile of a message are the same
\* whether analysis runs before or after attribute extraction.
C20_OrderIndependent ==
    \A u \in Units :
        (ev[u].type = "message" /\ pc[u] = "extract") => AnalysisFirst(u) = ExtractionFirst(u)

----------------------------------------------------------------------------
(* Two text messages of one user handled at the same time *)

ConcurrentEvents ==
    [type : {"message"}, userId : {"u1"}, message_type : {"text"}, text : Texts,
     replyToken : {TRUE}]

InitConcurrent ==
    /\ configs = [n \in {"A"} |-> ValidStored(TRUE, 1)]
    /\ reload = NoReload
    /\ enable_fallback_providers = TRUE
    /\ providers = <<>>
    /\ primary_provider = None
    /\ initialized = FALSE
    /\ metrics = <<>>
    /\ InitCall
    /\ InitHook
    /\ InitIngressIdle
    /\ InitManagers
    /\ history = [w \in Users |-> <<>>]
    /\ cache = [t \in Texts |-> ""]

NextConcurrent ==
    \/ Initialize
    \/ \E u \in Units, e \in ConcurrentEvents : HandleTextMessage(u, e)
    \/ \E u \in Units : ExtractAttributes(u)
    \/ \E u \in Units : CacheLookup(u)
    \/ \E u \in Units : GetConversationHistory(u)
    \/ \E u \in Units : RouteSteps(u)
    \/ \E u \in Units : RouteReturned(u)
    \/ \E u \in Units : StoreUser(u)
    \/ \E u \in Units : StoreAssistant(u)
    \/ \E u \in Units : StoreTrim(u)
    \/ \E u \in Units, o \in TransportOutcomes : SendReply(u, o)
    \/ \E u \in Units, o \in TransportOutcomes : HandleFailure(u, o)

SpecConcurrent == InitConcurrent /\ [][NextConcurrent]_vars

\* no unit is between the two rpush calls of _store_conversation_turn
NoTurnHalfStored == \A u \in Units : pc[u] # "store_assistant"
RoleAt(i) == IF i % 2 = 1 THEN "user" ELSE "assistant"

\* C19: under any interleaving of two messages of the same user handled at the same
\* time, the stored history is a sequence of whole turns: each user message is
\* immediately followed by the reply produced for it, and no entry of one turn lies
\* between the two entries of another.
C19_WholeTurns ==
    \A w \in Users :
        NoTurnHalfStored =>
            \A i \in 1..Len(history[w]) : history[w][i].role = RoleAt(i)

----------------------------------------------------------------------------
(* Text messages of two different users handled at the same time *)

\* the user whose message each coroutine handles
UserOf(u) == IF u = 1 THEN "u1" ELSE "u2"

InitUsers ==
    /\ configs = [n \in {"A"} |-> ValidStored(TRUE, 1)]
    /\ reload = NoReload
    /\ enable_fallback_providers = TRUE
    /\ providers = <<>>
    /\ primary_provider = None
    /\ initialized = FALSE
    /\ metrics = <<>>
    /\ InitCall
    /\ InitHook
    /\ InitIngressIdle
    /\ InitManagers
    /\ history = [w \in Users |-> <<>>]
    /\ cache \in [Texts -> {"", "cached"}]

NextUsers ==
    \/ Initialize
    \/ \E u \in Units, e \in Events : e.userId = UserOf(u) /\ HandleTextMessage(u, e)
    \/ \E u \in Units : ExtractAttributes(u)
    \/ \E u \in Units : CacheLookup(u)
    \/ \E u \in Units : GetConversationHistory(u)
    \/ \E u \in Units : RouteSteps(u)
    \/ \E u \in Units : RouteReturned(u)
    \/ \E u \in Units : StoreUser(u)
    \/ \E u \in Units : StoreAssistant(u)
    \/ \E u \in Units : StoreTrim(u)
    \/ \E u \in Units, o \in TransportOutcomes : SendReply(u, o)
    \/ \E u \in Units, o \in TransportOutcomes : HandleFailure(u, o)

SpecUsers == InitUsers /\ [][NextUsers]_vars

\* the step is a step of unit u; what a unit holds for itself
StepOf(u) == pc'[u] # pc[u]
LocalsOf(u) ==
    <<pc[u], mode[u], ev[u], arg[u], providers_to_try[u], idx[u], last_error[u], calls[u],
      routeOut[u], routed[u], cached_response[u], conversation[u], ai_response_content[u],
      ai_provider[u], stages[u], sends[u], result[u], context[u], selected[u],
      instruction[u], extraction[u]>>
\* a step writes the history and the profile of a user only for a unit of that user
WritesOwnUser ==
    \A w \in Users :
        (history'[w] # history[w] \/ profiles'[w] # profiles[w]) =>
            \E u \in Units : StepOf(u) /\ ev'[u].userId = w
\* a step of one unit, a failing one included, changes nothing another unit holds
LeavesOthers ==
    \A u, v \in Units : (u # v /\ StepOf(u)) => LocalsOf(v)' = LocalsOf(v)
Finishes(u) == pc[u] # "done" /\ pc'[u] = "done"

----------------------------------------------------------------------------
(* Instruction generation with a failing step *)

\* a template an administrator added: it is triggered by the stage inquiry
StageTemplates ==
    DefaultTemplates
    \o <<Template("inquiry_guide", TRUE, "general", {"inquiry"}, 1,
                  Content("inquiry_guide", {"{customer_name}"}))>>

InitFaults ==
    /\ configs = [n \in {"A"} |-> ValidStored(TRUE, 1)]
    /\ reload = NoReload
    /\ enable_fallback_providers = TRUE
    /\ providers = <<>>
    /\ primary_provider = None
    /\ initialized = FALSE
    /\ metrics = <<>>
    /\ InitCall
    /\ InitHook
    /\ InitIngressIdle
    /\ InitLocals
    /\ \E n \in {0, 2} : history = [w \in Users |-> IF w = "u1" THEN OldHistory(n) ELSE <<>>]
    /\ cache = [t \in Texts |-> ""]
    /\ profiles = [w \in Users |-> NoProfile]
    /\ now = 0
    /\ templates \in {DefaultTemplates, StageTemplates}

NextFaults ==
    \/ \E u \in OneUnit, e \in Events : HandleTextMessage(u, e)
    \/ \E u \in OneUnit : ExtractAttributes(u)
    \/ \E u \in OneUnit : CacheLookup(u)
    \/ \E u \in OneUnit, f \in Faults \cup {"none"} : GetHistoryWith(u, f)
    \/ \E u \in OneUnit : RouteSteps(u)
    \/ \E u \in OneUnit : RouteReturned(u)
    \/ \E u \in OneUnit : StoreUser(u)
    \/ \E u \in OneUnit : StoreAssistant(u)
    \/ \E u \in OneUnit : StoreTrim(u)
    \/ \E u \in OneUnit, o \in TransportOutcomes : SendReply(u, o)
    \/ \E u \in OneUnit, o \in TransportOutcomes : HandleFailure(u, o)

SpecFaults == InitFaults /\ [][NextFaults]_vars

\* C22: when context analysis, template selection or composition fails inside
\* generate_dynamic_instructions, nothing is raised to the handler, the instruction is
\* the canonical default instruction, and the message goes on to Routing with it.
C22_FailureGivesDefault ==
    \A u \in Units :
        (Analyzed(u) /\ fault[u] \in Faults) =>
            /\ instruction[u] = DefaultInstruction
            /\ conversation[u][1] = Entry("system", DefaultInstruction)

----------------------------------------------------------------------------
(* Properties of template matching and selection *)

\* the match the synthesizer is specified to make: the category is a detected domain,
\* or a non-empty trigger is contained in the message text or equals the stage, the
\* segment or a detected domain
MatchesByRule(instruction_data, ctx, user_message) ==
    \/ instruction_data.category \in ctx.domains
    \/ \E trigger \in instruction_data.triggers :
           /\ trigger # ""
           /\ \/ trigger \in Keywords(user_message)
              \/ trigger = ctx.conversation_stage
              \/ trigger = ctx.customer_segment
              \/ trigger \in ctx.domains

\* C23: a template matches the context if and only if its category is a detected domain,
\* or one of its non-empty triggers equals or is contained in the message text, or equals
\* the stage, the segment or a detected domain.
C23_MatchesIff ==
    \A u \in Units :
        Generated(u) =>
            \A i \in 1..Len(templates) :
                matches_context(templates[i], context[u])
                    <=> MatchesByRule(templates[i], context[u], ev[u].text)

\* template i is enabled and matches the context of the call of unit u
Matching(u, i) == templates[i].enabled /\ matches_context(templates[i], context[u])

\* C24: the templates selected for a turn are enabled templates that match the context,
\* at most 5, in order of non-increasing priority, and no matching template that was
\* left out has a higher priority than a selected one.
C24_SelectionInvariant ==
    \A u \in Units :
        Generated(u) =>
            /\ \A k \in 1..Len(selected[u]) :
                   \E i \in 1..Len(templates) : templates[i] = selected[u][k] /\ Matching(u, i)
            /\ Len(selected[u]) <= SelectionLimit
            /\ \A k \in 1..(Len(selected[u]) - 1) :
                   selected[u][k].priority >= selected[u][k + 1].priority
            /\ \A i \in 1..Len(templates) :
                   (Matching(u, i) /\ ~IsSelected(u, i)) =>
                       \A k \in 1..Len(selected[u]) :
                           selected[u][k].priority >= templates[i].priority

\* five templates were selected and a matching template of lower priority, listed
\* first by the store, was left out
C24_Witness ==
    \E u \in Units :
        /\ Generated(u)
        /\ Len(selected[u]) = SelectionLimit
        /\ Matching(u, 1)
        /\ ~IsSelected(u, 1)
        /\ templates[1].priority < selected[u][SelectionLimit].priority

----------------------------------------------------------------------------
(* Properties of the extraction rules *)

\* the matches of all patterns of a field, in rule order and match order
RECURSIVE Flatten(_)
Flatten(ps) == IF ps = <<>> THEN <<>> ELSE Head(ps) \o Flatten(Tail(ps))
\* the value of the first structurally valid match, "" when there is none
FirstValid(field, ms) ==
    LET valid == SelectSeq(ms, LAMBDA c : valid_capture(field, c))
    IN  IF valid = <<>> THEN ""
        ELSE IF field = "name" THEN Head(valid).value ELSE Head(valid).cleaned

\* C25: for each of phone, email and name the extracted value is the first structurally
\* valid match in the fixed rule order; no match of a later rule replaces it.
C25_FirstValidMatchWins ==
    \A u \in Units :
        Extracted(u) =>
            \A f \in ExtractedFields :
                extraction[u].extracted[f] = FirstValid(f, Flatten(TextFacts(ev[u].text)[f]))

----------------------------------------------------------------------------
(* Direct calls with messages of every conversation stage *)

StageTexts ==
    {"hi", "price", "order more", "hi, problem with order", "ask for help",
     "help, more problem", "more"}

InitStage ==
    /\ configs = [n \in {"A"} |-> ValidStored(TRUE, 1)]
    /\ reload = NoReload
    /\ enable_fallback_providers = TRUE
    /\ providers = <<>>
    /\ primary_provider = None
    /\ initialized = FALSE
    /\ metrics = <<>>
    /\ InitCall
    /\ InitHook
    /\ InitIngressIdle
    /\ InitLocals
    /\ cache = [t \in Texts |-> ""]
    /\ history \in [Users -> ProbeHistories]
    /\ profiles = [w \in Users |-> NoProfile]
    /\ now = 0
    /\ templates = DefaultTemplates

NextStage ==
    \E u \in Units, w \in Users, m \in StageTexts : GenerateInstructions(u, w, m)

SpecStage == InitStage /\ [][NextStage]_vars

\* the words of the rule of a stage
WordsOf(stage) ==
    UNION {StageRules[i].words : i \in {j \in 1..Len(StageRules) : StageRules[j].stage = stage}}
Says(u, stage) == WordsOf(stage) \cap Keywords(ev[u].text) # {}

\* C26: with an empty history the stage is initial whatever the message contains;
\* otherwise the first matching rule in the order greeting, inquiry, support, order,
\* followup decides, and the stage is conversation when no rule matches.
C26_StageClassification ==
    \A u \in Units :
        Generated(u) =>
            context[u].conversation_stage =
                IF CallHistory(u) = <<>> THEN "initial"
                ELSE IF Says(u, "greeting") THEN "greeting"
                ELSE IF Says(u, "inquiry") THEN "inquiry"
                ELSE IF Says(u, "support") THEN "support"
                ELSE IF Says(u, "order") THEN "order"
                ELSE IF Says(u, "followup") THEN "followup"
                ELSE "conversation"

\* a message that matches the support, order and followup rules after a stored turn, and
\* a greeting with an empty history
C26_Witness ==
    \E u, v \in Units :
        /\ Generated(u) /\ CallHistory(u) # <<>>
        /\ Says(u, "support") /\ Says(u, "followup") /\ ~Says(u, "greeting")
        /\ context[u].conversation_stage = "support"
        /\ Generated(v) /\ CallHistory(v) = <<>>
        /\ Says(v, "greeting")
        /\ context[v].conversation_stage = "initial"

----------------------------------------------------------------------------
(* Properties of the message list and of failed routing *)

\* the last n elements of a sequence, in order
Newest(seq, n) ==
    LET k == Min(n, Len(seq))
    IN  [i \in 1..k |-> seq[Len(seq) - k + i]]

\* C27: the message list handed to the router is the synthesized instruction as one
\* system message at position 0, then at most the 20 most recent stored history messages
\* in stored order, then the new user message as the last element.
C27_MessageList ==
    \A u \in Units :
        Analyzed(u) =>
            conversation[u] =
                <<Entry("system", instruction[u])>>
                \o Newest(history[ev[u].userId], 20)
                \o <<Entry("user", ev[u].text)>>

\* a user with more than 20 stored messages: the list holds the system message, the 20
\* newest stored messages and the new message
C27_Witness ==
    \E u \in Units :
        /\ Analyzed(u)
        /\ Len(history[ev[u].userId]) > 20
        /\ Len(conversation[u]) = 22
        /\ conversation[u][1].role = "system"
        /\ conversation[u][2] = history[ev[u].userId][Len(history[ev[u].userId]) - 19]
        /\ conversation[u][22] = Entry("user", ev[u].text)

\* generate_response raised for the text message of unit u
RoutingFailed(u) ==
    /\ ev[u].type = "message"
    /\ mode[u] = "webhook"
    /\ pc[u] \in {"route_raised", "done"}
    /\ routeOut[u].kind = "error"
\* the stored history of a user holds the messages it held initially and nothing else
HistoryUntouched(w) == history[w] = OldHistory(Len(history[w]))

\* C29: when Routing fails for a message, no entry is appended to the user's history and
\* nothing is stored in the response cache for the message: the history after the failed
\* unit equals the history before it.
C29_FailedRoutingStoresNothing ==
    \A u \in Units :
        RoutingFailed(u) =>
            /\ HistoryUntouched(ev[u].userId)
            /\ get_cached_response(cache, ev[u].text) = ""
            /\ \A k \in 1..Len(stages[u]) : stages[u][k] # "Persisting"

\* every provider failed for the message of a user with a stored history; the apology
\* was sent and the handler returned
C29_Witness ==
    \E u \in Units :
        /\ RoutingFailed(u)
        /\ pc[u] = "done"
        /\ calls[u] # <<>>
        /\ Len(sends[u]) = 1
        /\ Len(history[ev[u].userId]) = MaxInitialHistory
        /\ HistoryUntouched(ev[u].userId)


----------------------------------------------------------------------------
(* The registry over stored configs that can fail validate_config *)

\* the stored values of one field that differ from the valid hash
StoredTypes == {"gemini", "unknown"}
StoredSecrets == {"key", "", "env:SET_KEY", "env:UNSET_KEY"}
StoredModels == {"m", ""}
StoredTemperatures == {"0.7", "-0.1", "0", "2", "2.1", "nan"}
StoredMaxTokens == {"2048", "-1", "0", "1"}

\* hashes that differ from a valid hash in at most one field
StoredConfigs ==
    UNION {
        {[ValidStored(e, 1) EXCEPT !.provider_type = v] : v \in StoredTypes}
        \cup {[ValidStored(e, 1) EXCEPT !.api_key_secret = v] : v \in StoredSecrets}
        \cup {[ValidStored(e, 1) EXCEPT !.model = v] : v \in StoredModels}
        \cup {[ValidStored(e, 1) EXCEPT !.temperature = v] : v \in StoredTemperatures}
        \cup {[ValidStored(e, 1) EXCEPT !.max_tokens = v] : v \in StoredMaxTokens}
        : e \in BOOLEAN}

InitStored ==
    /\ configs \in UNION {[S -> StoredConfigs] : S \in SUBSET HookNames}
    /\ InitIngressIdle
    /\ InitManagers
    /\ InitRegistry
    /\ InitCall
    /\ InitHook
    /\ history = [w \in Users |-> <<>>]
    /\ cache = [t \in Texts |-> ""]

SpecStored == InitStored /\ [][NextRouter]_vars

\* what the validated configuration promises about an adapter
InRange(t) == ~t.nan /\ 0 <= t.tenths /\ t.tenths <= 20
ValidAdapter(p) ==
    /\ p.api_key # ""
    /\ p.model # ""
    /\ InRange(p.temperature)
    /\ p.max_tokens > 0

\* the stored hash passes the four checks
ValidHash(c) ==
    /\ get_api_key(c.api_key_secret) # ""
    /\ c.model # ""
    /\ InRange(float_of(c.temperature))
    /\ int_of(c.max_tokens) > 0

\* C28: after any sequence of initialize and reload_providers, every adapter in the
\* registry and every routing candidate has a non-empty API key, a non-empty model, a
\* temperature in [0,2] and max_tokens > 0; a stored config that fails one of these
\* checks is not registered and not routed to.
C28_RegistryHoldsValidAdapters ==
    /\ \A i \in 1..Len(providers) :
           /\ ValidAdapter(providers[i])
           /\ ValidHash(configs[providers[i].name])
    /\ \A u \in Units : \A i \in 1..Len(providers_to_try[u]) :
           /\ ValidAdapter(providers_to_try[u][i])
           /\ ValidHash(configs[providers_to_try[u][i].name])


----------------------------------------------------------------------------
(* reload_providers running while generate_response is called *)

\* reload_providers up to its first await: the registry is cleared and KEYS is awaited
ReloadClear ==
    /\ reload.at = "idle"
    /\ providers' = <<>>
    /\ reload' = [at |-> "keys", provider_keys |-> <<>>]
    /\ UNCHANGED <<ingressVars, customerVars, instructionVars, configs, enable_fallback_providers,
                   primary_provider, initialized, metrics, callVars, hookVars>>

\* KEYS ai:provider:* answered: the loop starts and awaits HGETALL of the first key,
\* or ends at once when there is no key
ReloadKeys ==
    /\ reload.at = "keys"
    /\ \E order \in KeyOrders(configs) :
           reload' = IF order = <<>> THEN NoReload
                     ELSE [at |-> "hgetall", provider_keys |-> order]
    /\ UNCHANGED <<ingressVars, customerVars, instructionVars, configs, enable_fallback_providers,
                   providers, primary_provider, initialized, metrics, callVars, hookVars>>

\* HGETALL of one key answered: its adapter is built, validated and registered, and
\* the loop awaits the next key or ends
ReloadLoad ==
    /\ reload.at = "hgetall"
    /\ providers' = load_providers_from_redis(providers, configs, <<Head(reload.provider_keys)>>)
    /\ reload' = IF Tail(reload.provider_keys) = <<>> THEN NoReload
                 ELSE [reload EXCEPT !.provider_keys = Tail(@)]
    /\ UNCHANGED <<ingressVars, customerVars, instructionVars, configs, enable_fallback_providers,
                   primary_provider, initialized, metrics, callVars, hookVars>>

InitReload ==
    /\ configs \in HookStores
    /\ InitIngressIdle
    /\ InitManagers
    /\ InitRegistry
    /\ InitCall
    /\ InitHook
    /\ history = [w \in Users |-> <<>>]
    /\ cache = [t \in Texts |-> ""]

NextReload ==
    \/ Initialize
    \/ ReloadClear
    \/ ReloadKeys
    \/ ReloadLoad
    \/ \E u \in OneUnit, fb \in BOOLEAN : RouteCall(u, NoName, fb)
    \/ \E u \in OneUnit : RouteSteps(u)

SpecReload == InitReload /\ [][NextReload]_vars

\* an enabled config that passes validate_config is in the store
EnabledValidConfigured ==
    \E n \in DOMAIN configs :
        /\ configs[n].enabled
        /\ configs[n].provider_type \in ProviderTypes
        /\ ValidHash(configs[n])

\* the route call of the unit failed for lack of providers
Starved(u) ==
    /\ pc[u] = "route_raised"
    /\ arg[u].provider_name = NoName
    /\ routeOut[u] = ManagerError("No available AI providers", None)

\* C30: a route call that runs while reload_providers runs never fails for lack of
\* providers when an enabled, valid adapter is configured in the store before and
\* after the reload: route never sees an empty or partially loaded registry.
C30_RouteNeverStarved ==
    \A u \in Units : Starved(u) => ~EnabledValidConfigured

====
